---- MODULE Spec2Model ----
(***************************************************************************)
(* Scene / Engine coordination of motion-man.                              *)
(*                                                                         *)
(* The host (src/main.rs) pumps Engine::run once per frame on a            *)
(* current-thread runtime, so scene coroutines are polled only while run   *)
(* is being driven.  Scenes talk to the Engine through one bounded inbox   *)
(* (capacity 8) and one-shot reply slots.  Every await of a scene and the  *)
(* yield of the Engine loop is a point where the other side may run.       *)
(***************************************************************************)
EXTENDS Integers, Sequences, FiniteSets, TLC

\* ------------------------------------------------------------------ bounds
MaxScenes == 2          \* scenes the host creates
MaxTick == 3            \* Engine::run calls the host makes
MaxTweenTick == 12      \* the same, for a host that plays a tween to its end
MaxManagers == 2        \* register_node calls the host makes

\* ------------------------------------------------------- program constants
InboxCap == 8           \* channel(8) of Engine::new
SignalCap == 1          \* channel(1) of create_signal

\* Scenes a host may create in all when it creates one more after an earlier
\* one has completed: one more than it has registered at a time.
MaxCreated == MaxScenes + 1
SceneIds == 0 .. (MaxCreated - 1)

\* The managers the host registered, in registration order
\* (engine.register_node::<RectNode>() in main), and the type tags a scene
\* can name; VideoNode is declared but never registered.
Registered == << "RectNode" >>

\* ---------------------------------------------------------------- scripts
Op(o, k, v) == [op |-> o, kind |-> k, val |-> v]
OpPresent == Op("Present", "none", 0)
OpUpdate == Op("Update", "none", 0)
OpSpawn(k) == Op("Spawn", k, 0)
OpSet(v) == Op("Set", "none", v)
OpRawCreateNode(k) == Op("RawCreateNode", k, 0)
OpRawCreateNodeOther(k) == Op("RawCreateNodeOther", k, 0)
OpGet == Op("Get", "none", 0)
OpTween(k) == Op("Tween", "none", k)
OpExec(k) == Op("Exec", "none", k)
OpPresentDropped == Op("PresentDropped", "none", 0)
OpCreateRefDropped(k) == Op("CreateRefDropped", k, 0)
OpSetColor(v) == Op("SetColor", "none", v)
OpDrop == Op("Drop", "none", 0)
OpPresentFrames(n) == Op("PresentFrames", "none", n)
OpSetSize(v) == Op("SetSize", "none", v)
OpDelta == Op("Delta", "none", 0)
OpFps == Op("Fps", "none", 0)
OpInfo == Op("Info", "none", 0)
OpSetPosition(v) == Op("SetPosition", "none", v)

\* The scene bodies the host may pass to create_scene.
Scripts ==
    { << OpPresent, OpPresent >>,
      << OpSpawn("RectNode"), OpPresent >>,
      << OpSet(1), OpSet(2), OpPresent >>,
      << OpSpawn("VideoNode") >>,
      << OpRawCreateNode("VideoNode"), OpPresent >>,
      << OpUpdate >> }

\* The scene bodies that use a Rect handle: the convention of main (set,
\* submit, wait, drop), the same without the submit, and two sets in a row;
\* and scenes that only present or only submit.
RectScripts ==
    { << OpSpawn("RectNode"), OpSetColor(1), OpUpdate, OpPresent, OpDrop >>,
      << OpSpawn("RectNode"), OpSetColor(1), OpPresent, OpDrop >>,
      << OpSpawn("RectNode"), OpSetColor(1), OpSetColor(2), OpDrop >>,
      << OpPresent >>,
      << OpUpdate >> }

\* The scene bodies that change several properties of their Rect, with and
\* without a submit in between.
PropScripts ==
    { << OpSpawn("RectNode"), OpSetSize(1), OpSetColor(2), OpDrop >>,
      << OpSpawn("RectNode"), OpSetColor(1), OpSetPosition(2), OpDrop >>,
      << OpSpawn("RectNode"), OpSetPosition(1), OpSetSize(2), OpDrop >>,
      << OpSpawn("RectNode"), OpSetPosition(1), OpUpdate, OpPresent,
         OpSetSize(2), OpDrop >>,
      << OpPresent >>,
      << OpUpdate >> }

\* The scene bodies that put two Rects under one manager and drop the
\* second, with and without a colour change pending for the first; and a
\* scene that only submits.
MultiRectScripts ==
    { << OpSpawn("RectNode"), OpSpawn("RectNode"), OpDrop, OpPresent >>,
      << OpSpawn("RectNode"), OpSetColor(1), OpSpawn("RectNode"), OpDrop,
         OpPresent >>,
      << OpUpdate >> }

\* The scene bodies that send more than the Engine takes: one submit more
\* than the inbox holds and then a frame; and scenes that submit once or
\* only present.
Updates(n) == [i \in 1 .. n |-> OpUpdate]

InboxScripts ==
    { Updates(InboxCap + 1) \o << OpPresent >>,
      << OpUpdate >>,
      << OpPresent >> }

\* The scene bodies of the host that creates scenes as others complete: one
\* that submits and returns, one that shows a frame.
IdScripts == { << OpUpdate >>, << OpPresent >> }

\* The scene bodies that read the shared metadata: through delta() and
\* fps(), through info(..) as the scene of main does, and a scene that only
\* presents.
InfoScripts ==
    { << OpDelta, OpPresent, OpFps >>,
      << OpInfo, OpUpdate, OpDelta >>,
      << OpPresent >> }

\* The scene bodies that read their Signal back.
SignalScripts ==
    { << OpSet(1), OpGet, OpSet(2), OpGet >>,
      << OpGet, OpPresent >> }

\* The scene bodies that hand the Engine a reply slot through the public
\* sender and drop its receiving end at once (each drops one receiver and
\* opens no other reply slot), next to a scene that presents.
DropScripts ==
    { << OpPresentDropped, OpUpdate >>,
      << OpCreateRefDropped("RectNode") >>,
      << OpPresent, OpPresent >> }

\* The scene bodies around a CreateNode whose tag names a registered manager
\* while the boxed builder is that of another kind, and a scene that presents.
BuilderScripts ==
    { << OpRawCreateNodeOther("RectNode"), OpPresent >>,
      << OpSpawn("RectNode"), OpPresent >>,
      << OpPresent >> }

\* The scene bodies that call present(frames) with 0, 1 and 2 frames.
FrameScripts ==
    { << OpPresentFrames(0), OpUpdate >>,
      << OpPresentFrames(0), OpPresentFrames(1) >>,
      << OpPresentFrames(2) >>,
      << OpPresent >> }

\* The scene bodies that take a Rect handle to the end of the scene: one
\* that awaits drop() on it, one that lets it go out of scope, one that does
\* the one and then the other; and a scene that only submits.
HandleScripts ==
    { << OpSpawn("RectNode"), OpDrop >>,
      << OpSpawn("RectNode"), OpPresent >>,
      << OpSpawn("RectNode"), OpDrop, OpSpawn("RectNode"), OpPresent >>,
      << OpUpdate >> }

\* The scene bodies of a host that plays every scene to its end: scenes that
\* present and submit and then return, and one whose spawn names a manager
\* that is not registered (it never returns: the Engine panics on it).
LiveScripts ==
    { << OpPresent, OpPresent >>,
      << OpUpdate, OpPresent >>,
      << OpUpdate >>,
      << OpSpawn("VideoNode") >> }

\* The run calls that host needs at most: MaxScenes scenes of two frames
\* each, created one after the other, and the call that sees the last return.
LiveTick == 2 * MaxScenes + 1

\* The manager types a host can register (register_node wants Default, which
\* VideoNode does not have).
ManagerKinds == { "RectNode" }

\* The scene bodies played against several registered managers: the
\* convention of main, a scene that submits and presents, one that presents.
ManagerScripts ==
    { << OpSpawn("RectNode"), OpSetColor(1), OpUpdate, OpPresent, OpDrop >>,
      << OpUpdate, OpPresent >>,
      << OpPresent >> }

\* The kind whose builder such a message carries (mod video of main).
OtherKind == "VideoNode"

\* Info.delta, in tenths of a second (a host running at 10 frames a second)
InfoDelta == 1

\* Tween::new(range, time, runner).  Values are in tenths, times in tenths of
\* a second; x starts at the start of the range.
Tween_new(start, end, time) ==
    [start |-> start, end |-> end, time |-> time, x |-> start]

\* The tweens a scene chains into one future with scene.tween(..).tween(..):
\* the ranges [0,1] and [1,0] over one second; one tween alone; two tweens
\* of different durations.
TweenSets ==
    << << Tween_new(0, 10, 10), Tween_new(10, 0, 10) >>,
       << Tween_new(0, 10, 10) >>,
       << Tween_new(0, 10, 5), Tween_new(10, 0, 10) >> >>

\* The scene bodies that await a tween future, and a scene that presents.
TweenScripts ==
    { << OpTween(k) >> : k \in 1 .. Len(TweenSets) } \cup { << OpPresent >> }

\* A step of the shape Signal::tween adds: a loop that sets its Signal and
\* then signals the round, for as long as sum < 1 (time in tenths of a
\* second).  pre is what the channel of the step's Signal holds when the
\* Executor is made: empty, or the unread value of a set made just before.
Step_new(time, pre) == [time |-> time, pre |-> pre]

\* The Executors a scene awaits: the one of Signal::tween over two frames, one
\* without steps, two steps of which the second finds its Signal's channel
\* occupied, two steps of different lengths, and the one of Signal::tween
\* over a single frame.
ExecSets ==
    << << Step_new(2, << >>) >>,
       << >>,
       << Step_new(2, << >>), Step_new(2, << 9 >>) >>,
       << Step_new(1, << >>), Step_new(2, << >>) >>,
       << Step_new(1, << >>) >> >>

\* The scene bodies that await an Executor, and a scene that presents.
ExecScripts ==
    { << OpExec(k) >> : k \in 1 .. Len(ExecSets) } \cup { << OpPresent >> }

\* (self.id, msg): the sender's id and the message.  kind is the Ty tag and
\* bkind the manager kind the boxed builder belongs to; n numbers the
\* messages of one sender in the order of its send calls.
MsgWith(f, t, k, r, b) ==
    [from |-> f, type |-> t, kind |-> k, req |-> r, bkind |-> b, n |-> 0]
Msg(f, t, k, r) == MsgWith(f, t, k, r, k)

VARIABLES
    \* ---- Engine (src/src/engine.rs)
    scenes,      \* Engine.scenes: ids of the registered scenes, in order
    counter,     \* Engine.counter
    inbox,       \* the mpsc channel engine_sender -> receiver
    waiting,     \* Engine.waiting: reply slots of parked Present calls
    nodes,       \* Engine.nodes: one RectNode state per registered manager
    epc,         \* where the host loop is: host / run / returned / stopped
    panic,       \* "none", or the diagnostic of the Engine's panic
    \* ---- scenes (src/src/scene.rs)
    script,      \* the body of each scene
    spc,         \* index of the operation a scene is at
    st,          \* none / running / awaitPresent / awaitRef / setBlocked /
                 \* setUpdate / done
    resolved,    \* the one-shot of the scene's pending Present was answered
    refReply,    \* the one-shot answer to the scene's pending CreateRef
    \* ---- signals (src/src/signal.rs)
    sigCh,       \* the bounded channel of each scene's Signal
    sigVal,      \* Signal.value, the producer's cache
    obs,         \* the values the consumer's polls returned, in order, each
                 \* with whether the producer was by then inside a later set
    \* ---- observation
    tick,        \* number of run calls started
    presentRecv, \* per scene: ticks in which its Present messages were received
    presentRes,  \* per scene: ticks in which its waiters were resolved
    chk,         \* the last frame-boundary check of run
    trueChecks,  \* checks of the current run call whose condition was true
    nsent,       \* per scene: messages sent to the inbox
    ndisp,       \* per scene: messages received by the Engine
    created,     \* requests whose create_node ran
    inited,      \* builders whose init_node ran
    last,        \* the message the Engine received last, and what it did
    \* ---- host loop
    tickLimit,   \* run calls the host makes before it is cut off
    \* ---- calls that return a value to the scene
    gotVal,      \* per scene: what its Signal::get calls returned, in order
                 \* (and its fps, delta and info calls)
    dropped,     \* scenes that dropped the receiving end of a reply slot
    \* ---- tween future (src/src/tween.rs)
    tw,          \* the TweenBuilder future a scene awaits
    \* ---- Executor (src/src/signal.rs)
    ex,          \* the Executor future a scene awaits
    \* ---- NodeManager calls and the host's frames
    calls,       \* the manager methods the Engine invoked for the message it
                 \* received last, or in the render pass, in order
    passes,      \* Engine::render calls the host has made
    frame,       \* per scene: iterations its present(frames) call has begun
    \* ---- shared metadata (src/src/info.rs)
    info         \* Engine.info: the Info behind the RwLock, and whether the
                 \* lock is write-held

engineVars == << scenes, counter, inbox, waiting, nodes, epc, panic >>
sceneVars == << script, spc, st, resolved, refReply >>
signalVars == << sigCh, sigVal, obs >>
obsVars == << tick, presentRecv, presentRes, chk, trueChecks, nsent, ndisp,
              created, inited, last >>
extVars == << info, tickLimit, gotVal, dropped, tw, ex >>
hostVars == << calls, passes, frame >>
vars == << engineVars, sceneVars, signalVars, obsVars, extVars, hostVars >>

NoCheck == [made |-> FALSE, sc |-> 0, w |-> 0, pruned |-> TRUE, exit |-> FALSE]
NoMsg == Msg(0, "none", "none", << >>)
NoLast == [msg |-> NoMsg, replied |-> FALSE, mgr |-> 0]

\* No tween future has been built, no Executor made.
NoTween == [tweens |-> << >>, log |-> << >>, round |-> 0, alive |-> { }]
NoExec == [pc |-> "none"]

\* RectNode::default(); ty is the TypeId the manager answers ty_id() with
EmptyRectNode ==
    [ty |-> "RectNode", rects |-> << >>, receivers |-> << >>, counter |-> 0]

\* Variant: Engine::new hands the metadata out with the lock write-held.
Engine_new_info_Held(delta) == [delta |-> delta, writer |-> TRUE]

\* Engine::new: Info { delta, .. } behind a fresh RwLock
Engine_new_info(delta) == [delta |-> delta, writer |-> FALSE]

\* RwLock::read().await and blocking_read complete, and try_read succeeds,
\* when no writer holds the lock.
RwLock_try_read(i) == ~i.writer

\* Info::fps: (1. / self.delta).round(), delta in tenths of a second
Info_fps(i) == (2 * 10 + i.delta) \div (2 * i.delta)

\* The state after Engine::new of a host whose frame lasts delta, and the
\* register_node calls of reg.
InitInfo(limit, reg, delta) ==
    /\ scenes = << >>
    /\ counter = 0
    /\ inbox = << >>
    /\ waiting = << >>
    /\ nodes = [i \in 1 .. Len(reg) |-> [EmptyRectNode EXCEPT !.ty = reg[i]]]
    /\ epc = "host"
    /\ panic = "none"
    /\ script = [s \in SceneIds |-> << >>]
    /\ spc = [s \in SceneIds |-> 1]
    /\ st = [s \in SceneIds |-> "none"]
    /\ resolved = [s \in SceneIds |-> FALSE]
    /\ refReply = [s \in SceneIds |-> << >>]
    /\ sigCh = [s \in SceneIds |-> << >>]
    /\ sigVal = [s \in SceneIds |-> 0]
    /\ obs = [s \in SceneIds |-> << >>]
    /\ tick = 0
    /\ presentRecv = [s \in SceneIds |-> << >>]
    /\ presentRes = [s \in SceneIds |-> << >>]
    /\ chk = NoCheck
    /\ trueChecks = 0
    /\ nsent = [s \in SceneIds |-> 0]
    /\ ndisp = [s \in SceneIds |-> 0]
    /\ created = { }
    /\ inited = { }
    /\ last = NoLast
    /\ tickLimit = limit
    /\ gotVal = [s \in SceneIds |-> << >>]
    /\ dropped = { }
    /\ tw = NoTween
    /\ ex = NoExec
    /\ calls = << >>
    /\ info = Engine_new_info(delta)
    /\ passes = 0
    /\ frame = [s \in SceneIds |-> 0]

\* The state after Engine::new and the register_node calls of reg.
InitReg(limit, reg) == InitInfo(limit, reg, InfoDelta)

InitWith(limit) == InitReg(limit, Registered)

Init == InitWith(MaxTick)


\* ------------------------------------------------------------- helpers
Range(q) == { q[i] : i \in 1 .. Len(q) }

\* One invocation of a method of the manager at place i of Engine.nodes
Call(i, f) == [mgr |-> i, fn |-> f]
SetMin(S) == CHOOSE x \in S : \A y \in S : x <= y

\* ------------------------------------------------- RectNode (src/src/rect.rs)
\* ElementMessage::Set(tag, data): tag 1 carries a colour, tag 21 asks the
\* manager to let the rectangle go.
SetSizeTag == 0
SetColorTag == 1
SetPositionTag == 2
SetDropTag == 21
ElementMessage_Set(tag, data) == [tag |-> tag, val |-> data]

\* channel(1) of create_ref
ElementCap == 1

\* create_ref: a new channel whose receiver is filed under the current counter.
\* The channel is named by the request it was made for.
RectNode_create_ref(n, req) ==
    [n EXCEPT !.receivers = Append(@, [id |-> n.counter, req |-> req,
                                       ch |-> << >>])]

\* init_element: the rectangle built from the builder gets the current
\* counter as its id, then the counter moves on.  color 0 is the colour the
\* builder was made with.
RectNode_init_element(n, builder) ==
    [n EXCEPT !.rects = Append(@, [builder |-> builder, id |-> n.counter,
                                   color |-> 0, size |-> 0,
                                   position |-> 0]),
              !.counter = @ + 1]

\* for rect in self.rects.iter_mut() { if rect.2 == *id { ..; break } }
SetFirstColor(rects, id, color) ==
    LET hit == { i \in 1 .. Len(rects) : rects[i].id = id } IN
    IF hit = { } THEN rects
    ELSE [rects EXCEPT ![SetMin(hit)].color = color]

\* Variant: the drop message removes the first rectangle, whatever its id.
RemoveRects_First(rects, id) ==
    IF rects = << >> THEN rects ELSE Tail(rects)

\* self.rects.retain(|rect| rect.2 != *id)
RemoveRects(rects, id) == SelectSeq(rects, LAMBDA x : x.id # id)

SetFirstSize(rects, id, size) ==
    LET hit == { i \in 1 .. Len(rects) : rects[i].id = id } IN
    IF hit = { } THEN rects
    ELSE [rects EXCEPT ![SetMin(hit)].size = size]

SetFirstPosition(rects, id, position) ==
    LET hit == { i \in 1 .. Len(rects) : rects[i].id = id } IN
    IF hit = { } THEN rects
    ELSE [rects EXCEPT ![SetMin(hit)].position = position]

\* The retain_mut of update: one try_recv per receiver, in order.  A size,
\* colour or position message is applied to the first rectangle with the
\* receiver's id; the drop message removes the rectangles with that id and
\* the receiver itself; any other message is taken and ignored.
RECURSIVE RectNode_retain(_, _, _)
RectNode_retain(rects, recvs, kept) ==
    IF recvs = << >> THEN [rects |-> rects, receivers |-> kept]
    ELSE LET r == Head(recvs) IN
         IF r.ch = << >>
         THEN RectNode_retain(rects, Tail(recvs), Append(kept, r))
         ELSE LET msg == Head(r.ch)
                  rest == [r EXCEPT !.ch = Tail(@)] IN
              IF msg.tag = SetDropTag
              THEN RectNode_retain(RemoveRects(rects, r.id),
                                   Tail(recvs), kept)
              ELSE IF msg.tag = SetColorTag
              THEN RectNode_retain(SetFirstColor(rects, r.id, msg.val),
                                   Tail(recvs), Append(kept, rest))
              ELSE IF msg.tag = SetSizeTag
              THEN RectNode_retain(SetFirstSize(rects, r.id, msg.val),
                                   Tail(recvs), Append(kept, rest))
              ELSE IF msg.tag = SetPositionTag
              THEN RectNode_retain(SetFirstPosition(rects, r.id, msg.val),
                                   Tail(recvs), Append(kept, rest))
              ELSE RectNode_retain(rects, Tail(recvs), Append(kept, rest))

\* Variant: update leaves the element messages unread.
RectNode_update_Idle(n) == n

\* RectNode::update
RectNode_update(n) ==
    LET r == RectNode_retain(n.rects, n.receivers, << >>) IN
    [n EXCEPT !.rects = r.rects, !.receivers = r.receivers]

\* ------------------------------------------------ Engine (src/src/engine.rs)
\* Variant: the id is the place the scene gets in the registry.
Engine_next_id_Place == Len(scenes)

\* let id = self.counter
Engine_next_id == counter

\* Engine::create_scene
Engine_create_scene(scr) ==
    /\ epc = "host"
    /\ panic = "none"
    /\ counter' = counter + 1
    /\ script' = [script EXCEPT ![Engine_next_id] = scr]
    /\ st' = [st EXCEPT ![Engine_next_id] = "running"]
    /\ scenes' = Append(scenes, Engine_next_id)
    /\ UNCHANGED << hostVars, extVars, inbox, waiting, nodes, epc, panic, spc, resolved, refReply,
                    signalVars, obsVars >>

\* The host that creates MaxScenes scenes.
CreateScene(scr) ==
    /\ counter < MaxScenes
    /\ Engine_create_scene(scr)

\* The host that has at most MaxScenes scenes registered at a time, and creates
\* another when one has completed.
CreateSceneAgain(scr) ==
    /\ counter < MaxCreated
    /\ Len(scenes) < MaxScenes
    /\ Engine_create_scene(scr)

\* Engine::register_node::<T>(): T::default() joins the end of Engine.nodes.
\* The host registers before it creates scenes, as main does.
Engine_register_node(kind) ==
    /\ epc = "host"
    /\ tick = 0
    /\ counter = 0
    /\ Len(nodes) < MaxManagers
    /\ nodes' = Append(nodes, [EmptyRectNode EXCEPT !.ty = kind])
    /\ UNCHANGED << hostVars, extVars, scenes, counter, inbox, waiting, epc,
                    panic, sceneVars, signalVars, obsVars >>

\* Variants of the flush that answer only the first waiter, or none.
DrainedFirst(w) == IF w = << >> THEN w ELSE << Head(w) >>
DrainedNone(w) == << >>

\* self.waiting.drain(..): the waiters the flush answers
Drained(w) == w

\* Variant: an answer nobody can receive is let go.
OneshotSend_ignore(receiverDropped) == "none"

\* send.send(..).unwrap() on a reply slot: the send fails when the receiving
\* end was dropped, and unwrap turns the failure into a panic.  The result is
\* the diagnostic, "none" when the answer went through.
OneshotSend_unwrap(receiverDropped) ==
    IF receiverDropped THEN "reply receiver dropped" ELSE "none"

\* Engine::run up to the loop: every queued waiter is answered, in order, up
\* to the first one whose answer panics; the drain empties the drained range
\* either way.
RunStart ==
    /\ epc = "host"
    /\ panic = "none"
    /\ tick < tickLimit
    /\ LET d == Drained(waiting)
           bad == { i \in 1 .. Len(d) :
                        OneshotSend_unwrap(d[i] \in dropped) # "none" }
           ok == IF bad = { } THEN d ELSE SubSeq(d, 1, SetMin(bad) - 1) IN
        /\ resolved' = [s \in SceneIds |-> resolved[s] \/ s \in Range(ok)]
        /\ waiting' = SubSeq(waiting, Len(d) + 1, Len(waiting))
        /\ presentRes' = [s \in SceneIds |->
                IF s \in Range(ok) THEN Append(presentRes[s], tick + 1)
                ELSE presentRes[s]]
        /\ panic' = IF bad = { } THEN "none"
                    ELSE OneshotSend_unwrap(d[SetMin(bad)] \in dropped)
    /\ tick' = tick + 1
    /\ epc' = "run"
    /\ trueChecks' = 0
    /\ chk' = NoCheck
    /\ calls' = << >>
    /\ UNCHANGED << passes, frame, extVars, scenes, counter, inbox, nodes, script, spc, st,
                    refReply, signalVars, presentRecv, nsent, ndisp, created,
                    inited, last >>

\* Variant: a handle never reports that its task has finished.
IsFinished_Never(id) == FALSE

\* handler.is_finished(): the task has returned or panicked
IsFinished(id) == st[id] \in { "done", "panicked" }

\* Variant: the registry is not pruned.
PrunedNever(sc) == sc

\* self.scenes.retain(|..| !handler.is_finished())
Pruned(sc) == SelectSeq(sc, LAMBDA id : ~IsFinished(id))

\* Variant: the comparison is off by one.
FrameSettledOffByOne(sc, w) == Len(sc) <= Len(w) + 1

\* if self.scenes.len() <= self.waiting.len() { break }
FrameSettled(sc, w) == Len(sc) <= Len(w)

\* The tail of one loop iteration: prune, then the frame-boundary check.
PruneAndCheck(w) ==
    LET sc == Pruned(scenes) IN
    /\ scenes' = sc
    /\ chk' = [made |-> TRUE, sc |-> Len(sc), w |-> Len(w),
               pruned |-> \A i \in 1 .. Len(sc) : ~IsFinished(sc[i]),
               exit |-> FrameSettled(sc, w)]
    /\ trueChecks' = IF Len(sc) <= Len(w) THEN trueChecks + 1 ELSE trueChecks
    /\ epc' = IF FrameSettled(sc, w) THEN "returned" ELSE "run"

\* AbstractNodeManager::ty_id: TypeId::of::<T>()
AbstractNodeManager_ty_id(n) == n.ty

\* Variant: the last manager with the tag takes the message.
ManagerForLast(kind) ==
    LET hit == { i \in 1 .. Len(nodes) :
                    AbstractNodeManager_ty_id(nodes[i]) = kind } IN
    IF hit = { } THEN 0 ELSE CHOOSE i \in hit : \A j \in hit : j <= i

\* Variant: the tag is not compared, the first manager takes the message.
ManagerForAny(kind) == 1

\* node.ty_id() == ty.id, first match in registration order (0: none)
ManagerFor(kind) ==
    LET hit == { i \in 1 .. Len(nodes) :
                    AbstractNodeManager_ty_id(nodes[i]) = kind } IN
    IF hit = { } THEN 0 ELSE SetMin(hit)

Receiving(type) ==
    /\ epc = "run"
    /\ panic = "none"
    /\ inbox # << >>
    /\ Head(inbox).type = type
    /\ inbox' = Tail(inbox)
    /\ ndisp' = [ndisp EXCEPT ![Head(inbox).from] = @ + 1]

\* try_recv found nothing
RecvNone ==
    /\ epc = "run"
    /\ panic = "none"
    /\ inbox = << >>
    /\ PruneAndCheck(waiting)
    /\ UNCHANGED << hostVars, extVars, counter, inbox, waiting, nodes, panic, sceneVars,
                    signalVars, tick, presentRecv, presentRes, nsent, ndisp,
                    created, inited, last >>

\* Variant: the waiter is queued twice.
Waiting_push_Twice(w, s) == Append(Append(w, s), s)

\* self.waiting.push(send)
Waiting_push(w, s) == Append(w, s)

\* EngineMessage::Present(send)
RecvPresent ==
    /\ Receiving("Present")
    /\ LET m == Head(inbox) IN
        /\ waiting' = Waiting_push(waiting, m.from)
        /\ presentRecv' = [presentRecv EXCEPT ![m.from] = Append(@, tick)]
        /\ last' = [msg |-> m, replied |-> FALSE, mgr |-> 0]
    /\ PruneAndCheck(waiting')
    /\ calls' = << >>
    /\ UNCHANGED << passes, frame, extVars, counter, nodes, panic, sceneVars, signalVars, tick,
                    presentRes, nsent, created, inited >>

\* Variant: the builder is handed on without the type check.
AbstractNodeManager_init_node_Unchecked(n, kind, m) ==
    [panic |-> "none", node |-> RectNode_init_element(n, m.req)]

\* AbstractNodeManager::init_node of the manager of the given kind: the boxed
\* builder is downcast to the manager's builder type and unwrapped; only then
\* the manager's own init_node gets it.
AbstractNodeManager_init_node(n, kind, m) ==
    IF m.bkind = kind
    THEN [panic |-> "none", node |-> RectNode_init_element(n, m.req)]
    ELSE [panic |-> "builder downcast", node |-> n]

\* EngineMessage::CreateNode(ty, builder)
RecvCreateNode ==
    /\ Receiving("CreateNode")
    /\ LET m == Head(inbox)
           i == ManagerFor(m.kind)
           r == AbstractNodeManager_init_node(nodes[i], nodes[i].ty, m) IN
        /\ IF i # 0
           THEN /\ nodes' = [nodes EXCEPT ![i] = r.node]
                /\ panic' = r.panic
                /\ inited' = IF r.panic = "none" THEN inited \cup { m.req }
                             ELSE inited
           ELSE UNCHANGED << nodes, inited, panic >>
        /\ last' = [msg |-> m, replied |-> FALSE, mgr |-> i]
        /\ calls' = IF i # 0 THEN << Call(i, "init_node") >> ELSE << >>
        /\ IF i # 0 /\ r.panic # "none"
           THEN UNCHANGED << scenes, chk, trueChecks, epc >>
           ELSE PruneAndCheck(waiting)
    /\ UNCHANGED << passes, frame, extVars, counter, waiting, sceneVars, signalVars, tick,
                    presentRecv, presentRes, nsent, created >>

\* EngineMessage::CreateRef(ty, send)
RecvCreateRef ==
    /\ Receiving("CreateRef")
    /\ LET m == Head(inbox)
           i == ManagerFor(m.kind) IN
        /\ IF i # 0
           THEN \* send.send(node.create_node()).unwrap(); continue 'process
                /\ nodes' = [nodes EXCEPT ![i] = RectNode_create_ref(@, m.req)]
                /\ created' = created \cup { m.req }
                /\ panic' = OneshotSend_unwrap(m.from \in dropped)
                /\ refReply' = IF m.from \in dropped THEN refReply
                               ELSE [refReply EXCEPT ![m.from] = m.req]
           ELSE \* panic!("The `{}` is not registered! ...", ty.name)
                /\ panic' = m.kind
                /\ UNCHANGED << nodes, refReply, created >>
        /\ last' = [msg |-> m, replied |-> (i # 0 /\ m.from \notin dropped),
                    mgr |-> i]
        /\ calls' = IF i # 0 THEN << Call(i, "create_node") >> ELSE << >>
    /\ UNCHANGED << passes, frame, extVars, scenes, counter, waiting, epc, script, spc, st,
                    resolved, signalVars, tick, presentRecv, presentRes, chk,
                    trueChecks, nsent, inited >>

\* Variant: the poll reads the value and leaves it in the channel.
NSignal_get_Peek(ch) ==
    IF ch = << >> THEN [got |-> << >>, ch |-> ch]
    ELSE [got |-> << Head(ch) >>, ch |-> ch]

\* NSignal::get: self.receiver.try_recv().ok()
NSignal_get(ch) ==
    IF ch = << >> THEN [got |-> << >>, ch |-> ch]
    ELSE [got |-> << Head(ch) >>, ch |-> Tail(ch)]

\* update() of the manager that holds the consumer ends of the Signals: it
\* polls every Signal once.
SignalConsumers_update ==
    /\ sigCh' = [s \in SceneIds |-> NSignal_get(sigCh[s]).ch]
    /\ ex' = IF ex.pc = "none" THEN ex
             ELSE [ex EXCEPT !.sig = [i \in DOMAIN ex.sig |->
                                        NSignal_get(ex.sig[i]).ch]]
    /\ obs' = [s \in SceneIds |->
            IF NSignal_get(sigCh[s]).got = << >> THEN obs[s]
            ELSE Append(obs[s], [v |-> NSignal_get(sigCh[s]).got[1],
                                 late |-> st[s] = "setBlocked"])]

\* Variant: only the first manager is updated.
Engine_update_First(ns) ==
    [nodes |-> [i \in 1 .. Len(ns) |->
                    IF i = 1 THEN RectNode_update(ns[i]) ELSE ns[i]],
     calls |-> IF ns = << >> THEN << >> ELSE << Call(1, "update") >>]

\* for node in self.nodes.iter_mut() { node.update(); }
Engine_update(ns) ==
    [nodes |-> [i \in 1 .. Len(ns) |-> RectNode_update(ns[i])],
     calls |-> [i \in 1 .. Len(ns) |-> Call(i, "update")]]

\* EngineMessage::Update: update() on every manager
RecvUpdate ==
    /\ Receiving("Update")
    /\ nodes' = Engine_update(nodes).nodes
    /\ calls' = Engine_update(nodes).calls
    /\ SignalConsumers_update
    /\ last' = [msg |-> Head(inbox), replied |-> FALSE, mgr |-> 0]
    /\ PruneAndCheck(waiting)
    /\ UNCHANGED << passes, frame, info, tickLimit, gotVal, dropped, tw, counter, waiting, panic, sceneVars, sigVal, tick,
                    presentRecv, presentRes, nsent, created, inited >>

\* Variant: the Engine never reports that it has finished.
Finished_Never == FALSE

\* Engine::finished
Finished == scenes = << >>

\* Variant: the pass stops after the first manager.
Engine_render_First(ns) ==
    IF ns = << >> THEN << >>
    ELSE << Call(1, "render"), Call(1, "audio_process") >>

\* Engine::render: for node in self.nodes.iter_mut() { node.render(gcx);
\* node.audio_process(..) }.  RectNode::render only reads the manager, and its
\* audio_process is the empty default.
Engine_render(ns) ==
    [k \in 1 .. 2 * Len(ns) |->
        Call((k + 1) \div 2, IF k % 2 = 1 THEN "render" ELSE "audio_process")]

\* The host loop after run returned: engine.render(&gcx), the pause of
\* engine.info.blocking_read().delta, then break when engine.finished().
HostRender ==
    /\ epc = "returned"
    /\ panic = "none"
    /\ RwLock_try_read(info)
    /\ calls' = Engine_render(nodes)
    /\ passes' = passes + 1
    /\ epc' = IF Finished THEN "stopped" ELSE "host"
    /\ UNCHANGED << frame, extVars, scenes, counter, inbox, waiting, nodes, panic, sceneVars,
                    signalVars, obsVars >>


\* ------------------------------------------------- scenes (src/src/scene.rs)
\* A scene is polled only while the host drives run.
ScenePolled(s) ==
    /\ epc = "run"
    /\ panic = "none"
    /\ st[s] # "none"

AtOp(s, o) ==
    /\ ScenePolled(s)
    /\ st[s] = "running"
    /\ spc[s] <= Len(script[s])
    /\ script[s][spc[s]].op = o

\* Variant: the channel hands the newest message out first.
EnqueueFront(q, m) == << m >> \o q

\* mpsc Sender::send: the message joins the back of the queue
Enqueue(q, m) == Append(q, m)

\* Variant: the send never waits for room.
EngineSender_send_Unbounded(s, m) ==
    /\ inbox' = Enqueue(inbox, [m EXCEPT !.n = nsent[s] + 1])
    /\ nsent' = [nsent EXCEPT ![s] = @ + 1]

\* EngineSender::send: waits for room in the inbox
EngineSender_send(s, m) ==
    /\ Len(inbox) < InboxCap
    /\ inbox' = Enqueue(inbox, [m EXCEPT !.n = nsent[s] + 1])
    /\ nsent' = [nsent EXCEPT ![s] = @ + 1]

Advance(s) ==
    /\ spc' = [spc EXCEPT ![s] = @ + 1]
    /\ st' = [st EXCEPT ![s] = "running"]

\* SceneTask::present(1): send Present(send) ...
Present_send(s) ==
    /\ AtOp(s, "Present")
    /\ EngineSender_send(s, Msg(s, "Present", "none", << >>))
    /\ st' = [st EXCEPT ![s] = "awaitPresent"]
    /\ UNCHANGED << hostVars, extVars, scenes, counter, waiting, nodes, epc, panic, script, spc,
                    resolved, refReply, signalVars, tick, presentRecv,
                    presentRes, chk, trueChecks, ndisp, created, inited, last >>

\* ... recv.await.unwrap()
Present_resume(s) ==
    /\ ScenePolled(s)
    /\ st[s] = "awaitPresent"
    /\ resolved[s]
    /\ resolved' = [resolved EXCEPT ![s] = FALSE]
    /\ Advance(s)
    /\ UNCHANGED << hostVars, extVars, engineVars, script, refReply, signalVars, obsVars >>

\* Variant: the range takes in its upper end (0..=frames).
Present_more_Inclusive(frames, k) == k <= frames

\* for _ in 0..frames: there is another iteration after k of them
Present_more(frames, k) == k < frames

\* SceneTask::present(frames): each iteration sends Present(send) and then
\* awaits the answer; with no iteration left the call returns in the poll
\* that reached it.
Present_loop(s) ==
    /\ AtOp(s, "PresentFrames")
    /\ IF Present_more(script[s][spc[s]].val, frame[s])
       THEN /\ EngineSender_send(s, Msg(s, "Present", "none", << >>))
            /\ frame' = [frame EXCEPT ![s] = @ + 1]
            /\ st' = [st EXCEPT ![s] = "awaitFrame"]
            /\ UNCHANGED spc
       ELSE /\ frame' = [frame EXCEPT ![s] = 0]
            /\ Advance(s)
            /\ UNCHANGED << inbox, nsent >>
    /\ UNCHANGED << calls, passes, extVars, scenes, counter, waiting, nodes,
                    epc, panic, script, resolved, refReply, signalVars, tick,
                    presentRecv, presentRes, chk, trueChecks, ndisp, created,
                    inited, last >>

\* ... recv.await.unwrap(), and round the loop
Present_loop_resume(s) ==
    /\ ScenePolled(s)
    /\ st[s] = "awaitFrame"
    /\ resolved[s]
    /\ resolved' = [resolved EXCEPT ![s] = FALSE]
    /\ st' = [st EXCEPT ![s] = "running"]
    /\ UNCHANGED << hostVars, extVars, engineVars, script, spc, refReply,
                    signalVars, obsVars >>

\* SceneTask::spawn: send CreateRef(ty, send) ...
Spawn_ref(s) ==
    /\ AtOp(s, "Spawn")
    /\ EngineSender_send(s, Msg(s, "CreateRef", script[s][spc[s]].kind,
                                << s, spc[s] >>))
    /\ st' = [st EXCEPT ![s] = "awaitRef"]
    /\ UNCHANGED << hostVars, extVars, scenes, counter, waiting, nodes, epc, panic, script, spc,
                    resolved, refReply, signalVars, tick, presentRecv,
                    presentRes, chk, trueChecks, ndisp, created, inited, last >>

\* ... recv.await, create_node_ref, send CreateNode(ty, builder)
Spawn_node(s) ==
    /\ ScenePolled(s)
    /\ st[s] = "awaitRef"
    /\ refReply[s] # << >>
    /\ EngineSender_send(s, Msg(s, "CreateNode", script[s][spc[s]].kind,
                                << s, spc[s] >>))
    /\ refReply' = [refReply EXCEPT ![s] = << >>]
    /\ Advance(s)
    /\ UNCHANGED << hostVars, extVars, scenes, counter, waiting, nodes, epc, panic, script,
                    resolved, signalVars, tick, presentRecv, presentRes, chk,
                    trueChecks, ndisp, created, inited, last >>

\* SceneTask::update
SceneTask_update(s) ==
    /\ AtOp(s, "Update")
    /\ EngineSender_send(s, Msg(s, "Update", "none", << >>))
    /\ Advance(s)
    /\ UNCHANGED << hostVars, extVars, scenes, counter, waiting, nodes, epc, panic, script,
                    resolved, refReply, signalVars, tick, presentRecv,
                    presentRes, chk, trueChecks, ndisp, created, inited, last >>

\* SceneTask::delta: self.info.try_read().unwrap().delta; the unwrap of a
\* failed try_read panics the scene's task.
SceneTask_delta(s) ==
    /\ AtOp(s, "Delta")
    /\ IF RwLock_try_read(info)
       THEN /\ gotVal' = [gotVal EXCEPT ![s] = Append(@, info.delta)]
            /\ Advance(s)
       ELSE /\ st' = [st EXCEPT ![s] = "panicked"]
            /\ UNCHANGED << gotVal, spc >>
    /\ UNCHANGED << engineVars, script, resolved, refReply, signalVars,
                    obsVars, hostVars, info, tickLimit, dropped, tw, ex >>

\* SceneTask::fps: self.info.try_read().unwrap().fps()
SceneTask_fps(s) ==
    /\ AtOp(s, "Fps")
    /\ IF RwLock_try_read(info)
       THEN /\ gotVal' = [gotVal EXCEPT ![s] = Append(@, Info_fps(info))]
            /\ Advance(s)
       ELSE /\ st' = [st EXCEPT ![s] = "panicked"]
            /\ UNCHANGED << gotVal, spc >>
    /\ UNCHANGED << engineVars, script, resolved, refReply, signalVars,
                    obsVars, hostVars, info, tickLimit, dropped, tw, ex >>

\* SceneTask::info(|i| i.delta): self.info.read().await, then the reader runs
\* on the guard, which is released when info returns.
SceneTask_info(s) ==
    /\ AtOp(s, "Info")
    /\ RwLock_try_read(info)
    /\ gotVal' = [gotVal EXCEPT ![s] = Append(@, info.delta)]
    /\ Advance(s)
    /\ UNCHANGED << engineVars, script, resolved, refReply, signalVars,
                    obsVars, hostVars, info, tickLimit, dropped, tw, ex >>

\* scene.sender.send(EngineMessage::CreateNode(..)) through the public sender
RawCreateNode(s) ==
    /\ AtOp(s, "RawCreateNode")
    /\ EngineSender_send(s, Msg(s, "CreateNode", script[s][spc[s]].kind,
                                << s, spc[s] >>))
    /\ Advance(s)
    /\ UNCHANGED << hostVars, extVars, scenes, counter, waiting, nodes, epc, panic, script,
                    resolved, refReply, signalVars, tick, presentRecv,
                    presentRes, chk, trueChecks, ndisp, created, inited, last >>

\* scene.sender.send(EngineMessage::Present(send)) with the receiving end
\* dropped instead of awaited
Present_dropped(s) ==
    /\ AtOp(s, "PresentDropped")
    /\ EngineSender_send(s, Msg(s, "Present", "none", << >>))
    /\ dropped' = dropped \cup { s }
    /\ Advance(s)
    /\ UNCHANGED << scenes, counter, waiting, nodes, epc, panic, script,
                    resolved, refReply, signalVars, tick, presentRecv,
                    presentRes, chk, trueChecks, ndisp, created, inited, last,
                    hostVars, info, tickLimit, gotVal, tw, ex >>

\* scene.sender.send(EngineMessage::CreateRef(ty, send)) with the receiving
\* end dropped instead of awaited
CreateRef_dropped(s) ==
    /\ AtOp(s, "CreateRefDropped")
    /\ EngineSender_send(s, Msg(s, "CreateRef", script[s][spc[s]].kind,
                                << s, spc[s] >>))
    /\ dropped' = dropped \cup { s }
    /\ Advance(s)
    /\ UNCHANGED << scenes, counter, waiting, nodes, epc, panic, script,
                    resolved, refReply, signalVars, tick, presentRecv,
                    presentRes, chk, trueChecks, ndisp, created, inited, last,
                    hostVars, info, tickLimit, gotVal, tw, ex >>

\* scene.sender.send(EngineMessage::CreateNode(ty, Box::new(builder))) with
\* the builder of another kind than the tag names
RawCreateNodeOther(s) ==
    /\ AtOp(s, "RawCreateNodeOther")
    /\ EngineSender_send(s, MsgWith(s, "CreateNode", script[s][spc[s]].kind,
                                    << s, spc[s] >>, OtherKind))
    /\ Advance(s)
    /\ UNCHANGED << hostVars, extVars, scenes, counter, waiting, nodes, epc, panic,
                    script, resolved, refReply, signalVars, tick, presentRecv,
                    presentRes, chk, trueChecks, ndisp, created, inited, last >>

\* ------------------------------------------ tween future (src/src/tween.rs)
\* Variant: x always grows, whatever the direction of the range.
Tween_advance_Up(t, delta) ==
    [t EXCEPT !.x = @ + (delta * (IF t.start > t.end THEN t.start - t.end
                                  ELSE t.end - t.start)) \div t.time]

\* tween.x -= (delta / time) * (start - end), or += .. (end - start); the
\* sets of TweenSets make the division exact.
Tween_advance(t, delta) ==
    IF t.start > t.end
    THEN [t EXCEPT !.x = @ - (delta * (t.start - t.end)) \div t.time]
    ELSE [t EXCEPT !.x = @ + (delta * (t.end - t.start)) \div t.time]

\* Variant: a tween that has reached its end exactly is removed at once.
Tween_keep_Strict(t) ==
    IF t.start > t.end THEN t.x > t.end ELSE t.x < t.end

\* what the closure of retain_mut returns: tween.x >= end, or tween.x <= end
Tween_keep(t) ==
    IF t.start > t.end THEN t.x >= t.end ELSE t.x <= t.end

\* The tweens of the future, each with the place it was chained at.
Tweens_init(k) ==
    [i \in 1 .. Len(TweenSets[k]) |-> [id |-> i, t |-> TweenSets[k][i]]]

\* task.info(|i| i.delta).await, then tweens.retain_mut(..): every remaining
\* tween is advanced, its runner gets the new x, and it stays while x has not
\* passed the end of its range.  (The future reads delta once, before its
\* first round; Info is the same in every round.)
Tween_runners(s) ==
    /\ AtOp(s, "Tween")
    /\ RwLock_try_read(info)
    /\ LET cur == IF tw.round = 0 THEN Tweens_init(script[s][spc[s]].val)
                  ELSE tw.tweens
           log == IF tw.round = 0 THEN [i \in 1 .. Len(cur) |-> << >>]
                  ELSE tw.log
           adv == [i \in 1 .. Len(cur) |->
                        [cur[i] EXCEPT !.t = Tween_advance(@, info.delta)]] IN
        tw' = [tweens |-> SelectSeq(adv, LAMBDA e : Tween_keep(e.t)),
               log |-> [i \in 1 .. Len(log) |->
                            IF \E j \in 1 .. Len(adv) : adv[j].id = i
                            THEN Append(log[i],
                                (CHOOSE e \in Range(adv) : e.id = i).t.x)
                            ELSE log[i]],
               round |-> tw.round + 1,
               alive |-> { cur[i].id : i \in 1 .. Len(cur) }]
    /\ st' = [st EXCEPT ![s] = "twUpdate"]
    /\ UNCHANGED << engineVars, script, spc, resolved, refReply, signalVars,
                    obsVars, hostVars, info, tickLimit, gotVal, dropped, ex >>

\* Variant: the round goes on without the Update.
Tween_update_NoSend(s) ==
    /\ ScenePolled(s)
    /\ st[s] = "twUpdate"
    /\ st' = [st EXCEPT ![s] = "twPresent"]
    /\ UNCHANGED << engineVars, script, spc, resolved, refReply, signalVars,
                    obsVars, hostVars, extVars >>

\* task.update().await
Tween_update(s) ==
    /\ ScenePolled(s)
    /\ st[s] = "twUpdate"
    /\ EngineSender_send(s, Msg(s, "Update", "none", << >>))
    /\ st' = [st EXCEPT ![s] = "twPresent"]
    /\ UNCHANGED << hostVars, extVars, scenes, counter, waiting, nodes, epc, panic,
                    script, spc, resolved, refReply, signalVars, tick,
                    presentRecv, presentRes, chk, trueChecks, ndisp, created,
                    inited, last >>

\* task.present(1).await: send Present(send) ...
Tween_present(s) ==
    /\ ScenePolled(s)
    /\ st[s] = "twPresent"
    /\ EngineSender_send(s, Msg(s, "Present", "none", << >>))
    /\ st' = [st EXCEPT ![s] = "twAwait"]
    /\ UNCHANGED << hostVars, extVars, scenes, counter, waiting, nodes, epc, panic,
                    script, spc, resolved, refReply, signalVars, tick,
                    presentRecv, presentRes, chk, trueChecks, ndisp, created,
                    inited, last >>

\* Variant: the loop ends as soon as at most one tween is left.
Tweens_is_empty_Short(ts) == Len(ts) <= 1

\* tweens.is_empty()
Tweens_is_empty(ts) == ts = << >>

\* ... recv.await; if tweens.is_empty() { break }
Tween_resume(s) ==
    /\ ScenePolled(s)
    /\ st[s] = "twAwait"
    /\ resolved[s]
    /\ resolved' = [resolved EXCEPT ![s] = FALSE]
    /\ st' = [st EXCEPT ![s] = "running"]
    /\ spc' = [spc EXCEPT ![s] = IF Tweens_is_empty(tw.tweens) THEN @ + 1 ELSE @]
    /\ UNCHANGED << engineVars, script, refReply, signalVars, obsVars,
                    hostVars, extVars >>

\* ------------------------------------------- Rect handle (src/src/rect.rs)
\* The handle a scene holds came from its latest spawn; its channel is named
\* by that request.
Handle(s) ==
    LET sp == { j \in 1 .. (spc[s] - 1) : script[s][j].op = "Spawn" } IN
    << s, CHOOSE j \in sp : \A k \in sp : k <= j >>

\* Where the receiving end of a handle's channel is filed: << manager, index >>
ReceiverOf(req) ==
    UNION { { << i, k >> : k \in { j \in 1 .. Len(nodes[i].receivers) :
                                    nodes[i].receivers[j].req = req } } :
            i \in 1 .. Len(nodes) }

\* Variant: the channel takes a message whenever it has a receiver.
CanSend_Unbounded(req) == ReceiverOf(req) # { }

\* Sender::try_send / the ready case of Sender::send: there is a receiver
\* and the channel has room
CanSend(req) ==
    \E p \in ReceiverOf(req) :
        Len(nodes[p[1]].receivers[p[2]].ch) < ElementCap

Sent(req, msg) ==
    LET p == CHOOSE q \in ReceiverOf(req) : TRUE IN
    [nodes EXCEPT ![p[1]].receivers[p[2]].ch = Append(@, msg)]

\* Rect::set_color: try_send; a full (or closed) channel panics the scene, and
\* the unwinding drops the handle with droped = false, which aborts.
Rect_set_color(s) ==
    /\ AtOp(s, "SetColor")
    /\ IF CanSend(Handle(s))
       THEN /\ nodes' = Sent(Handle(s),
                    ElementMessage_Set(SetColorTag, script[s][spc[s]].val))
            /\ Advance(s)
            /\ UNCHANGED epc
       ELSE /\ epc' = "aborted"
            /\ UNCHANGED << nodes, spc, st >>
    /\ UNCHANGED << hostVars, extVars, scenes, counter, inbox, waiting, panic, script,
                    resolved, refReply, signalVars, obsVars >>

\* Rect::set_size: try_send(..).unwrap(); the failure unwinds as in set_color.
Rect_set_size(s) ==
    /\ AtOp(s, "SetSize")
    /\ IF CanSend(Handle(s))
       THEN /\ nodes' = Sent(Handle(s),
                    ElementMessage_Set(SetSizeTag, script[s][spc[s]].val))
            /\ Advance(s)
            /\ UNCHANGED epc
       ELSE /\ epc' = "aborted"
            /\ UNCHANGED << nodes, spc, st >>
    /\ UNCHANGED << hostVars, extVars, scenes, counter, inbox, waiting, panic, script,
                    resolved, refReply, signalVars, obsVars >>

\* Rect::set_position: try_send(..).unwrap()
Rect_set_position(s) ==
    /\ AtOp(s, "SetPosition")
    /\ IF CanSend(Handle(s))
       THEN /\ nodes' = Sent(Handle(s),
                    ElementMessage_Set(SetPositionTag, script[s][spc[s]].val))
            /\ Advance(s)
            /\ UNCHANGED epc
       ELSE /\ epc' = "aborted"
            /\ UNCHANGED << nodes, spc, st >>
    /\ UNCHANGED << hostVars, extVars, scenes, counter, inbox, waiting, panic, script,
                    resolved, refReply, signalVars, obsVars >>

\* Rect::drop: self.scene.submit().await ...
Rect_drop_submit(s) ==
    /\ AtOp(s, "Drop")
    /\ EngineSender_send(s, Msg(s, "Update", "none", << >>))
    /\ st' = [st EXCEPT ![s] = "dropSend"]
    /\ UNCHANGED << hostVars, extVars, scenes, counter, waiting, nodes, epc, panic,
                    script, spc, resolved, refReply, signalVars, tick,
                    presentRecv, presentRes, chk, trueChecks, ndisp, created,
                    inited, last >>

\* ... self.sender.send(Set(21, ())).await.unwrap() waits for room in the
\* channel; with the receiver gone it fails and the handle is dropped in the
\* unwinding ...
Rect_drop_send(s) ==
    /\ ScenePolled(s)
    /\ st[s] = "dropSend"
    /\ IF ReceiverOf(Handle(s)) = { }
       THEN /\ epc' = "aborted"
            /\ UNCHANGED << nodes, st >>
       ELSE /\ CanSend(Handle(s))
            /\ nodes' = Sent(Handle(s), ElementMessage_Set(SetDropTag, 0))
            /\ st' = [st EXCEPT ![s] = "dropSubmit"]
            /\ UNCHANGED epc
    /\ UNCHANGED << hostVars, extVars, scenes, counter, inbox, waiting, panic, script,
                    spc, resolved, refReply, signalVars, obsVars >>

\* ... self.scene.submit().await; self.droped = true
Rect_drop_done(s) ==
    /\ ScenePolled(s)
    /\ st[s] = "dropSubmit"
    /\ EngineSender_send(s, Msg(s, "Update", "none", << >>))
    /\ Advance(s)
    /\ UNCHANGED << hostVars, extVars, scenes, counter, waiting, nodes, epc, panic,
                    script, resolved, refReply, signalVars, tick, presentRecv,
                    presentRes, chk, trueChecks, ndisp, created, inited, last >>

\* ------------------------------------------------ Signal (src/src/signal.rs)
\* Variant: the send displaces an unread value instead of waiting.
SignalSendLatest(ch, v) == [ok |-> TRUE, ch |-> << v >>]

\* self.inner.sender.send(value).await on the bounded channel: completes
\* only when the channel has room, and then queues the value.
SignalSend(ch, v) ==
    [ok |-> Len(ch) < SignalCap, ch |-> Append(ch, v)]

\* Signal::set finds the channel full: the send future is pending
Set_blocked(s) ==
    /\ AtOp(s, "Set")
    /\ ~SignalSend(sigCh[s], script[s][spc[s]].val).ok
    /\ st' = [st EXCEPT ![s] = "setBlocked"]
    /\ UNCHANGED << hostVars, extVars, engineVars, script, spc, resolved, refReply, signalVars,
                    obsVars >>

\* Signal::set: the send completes, then self.value = value
Set_send(s) ==
    /\ \/ AtOp(s, "Set")
       \/ ScenePolled(s) /\ st[s] = "setBlocked"
    /\ LET r == SignalSend(sigCh[s], script[s][spc[s]].val) IN
        /\ r.ok
        /\ sigCh' = [sigCh EXCEPT ![s] = r.ch]
    /\ sigVal' = [sigVal EXCEPT ![s] = script[s][spc[s]].val]
    /\ st' = [st EXCEPT ![s] = "setUpdate"]
    /\ UNCHANGED << hostVars, extVars, engineVars, script, spc, resolved, refReply, obs, obsVars >>

\* Variant: set returns without sending Update.
Set_update_NoSend(s) ==
    /\ ScenePolled(s)
    /\ st[s] = "setUpdate"
    /\ Advance(s)
    /\ UNCHANGED << hostVars, extVars, engineVars, script, resolved, refReply, signalVars,
                    obsVars >>

\* Signal::set: self.scene.update().await, then set returns
Set_update(s) ==
    /\ ScenePolled(s)
    /\ st[s] = "setUpdate"
    /\ EngineSender_send(s, Msg(s, "Update", "none", << >>))
    /\ Advance(s)
    /\ UNCHANGED << hostVars, extVars, scenes, counter, waiting, nodes, epc, panic, script,
                    resolved, refReply, signalVars, tick, presentRecv,
                    presentRes, chk, trueChecks, ndisp, created, inited, last >>

\* Variant: get reports the value the consumer polled last.
Signal_get_Polled(s) ==
    IF obs[s] = << >> THEN 0 ELSE obs[s][Len(obs[s])].v

\* Signal::get: self.value.clone()
Signal_get(s) == sigVal[s]

\* A scene calls get and goes on; nothing is awaited.
Get_call(s) ==
    /\ AtOp(s, "Get")
    /\ gotVal' = [gotVal EXCEPT ![s] = Append(@, Signal_get(s))]
    /\ Advance(s)
    /\ UNCHANGED << engineVars, script, resolved, refReply, signalVars,
                    obsVars, hostVars, info, tickLimit, dropped, tw, ex >>

\* ---------------------------------------------- Executor (src/src/signal.rs)
\* channel(1) of Executor::add
StepCap == 1

\* Executor::new(end).add(step)..: the steps in the order added, none polled
\* yet, to_wait: None, waiting: 0.  ends counts the end actions invoked and
\* fin keeps the steps that completed.
Executor_new(k) ==
    [pc |-> "pending",
     steps |-> [i \in 1 .. Len(ExecSets[k]) |->
                    [id |-> i, time |-> ExecSets[k][i].time, it |-> 0,
                     at |-> "top", sent |-> 0, flag |-> FALSE, ch |-> << >>]],
     sig |-> [i \in 1 .. Len(ExecSets[k]) |-> ExecSets[k][i].pre],
     toWait |-> "none", waiting |-> 0, ends |-> 0, fin |-> << >>]

\* while sum < 1., with sum = it * delta / time
Step_loop(stp) == stp.it * InfoDelta < stp.time

\* One poll of a step future: it runs until an await is pending or the loop
\* ends.  w carries what the step shares with the rest of the poll: the
\* channels of the Signals, the inbox and the send count of the scene.
RECURSIVE Step_poll(_, _, _)
Step_poll(s, stp, w) ==
    CASE stp.at = "top" ->
            IF Step_loop(stp)
            THEN Step_poll(s, [stp EXCEPT !.it = @ + 1, !.at = "setSend"], w)
            ELSE [stp |-> stp, w |-> w, done |-> TRUE]
      [] stp.at = "setSend" ->
            \* Signal::set: self.inner.sender.send(value).await
            LET r == SignalSend(w.sig[stp.id], stp.it) IN
            IF r.ok
            THEN Step_poll(s, [stp EXCEPT !.at = "setUpdate"],
                           [w EXCEPT !.sig[stp.id] = r.ch])
            ELSE [stp |-> stp, w |-> w, done |-> FALSE]
      [] stp.at = "setUpdate" ->
            \* Signal::set: self.scene.update().await
            IF Len(w.inbox) < InboxCap
            THEN Step_poll(s, [stp EXCEPT !.at = "signal"],
                    [w EXCEPT !.inbox = Enqueue(@,
                                [Msg(s, "Update", "none", << >>)
                                    EXCEPT !.n = w.n + 1]),
                              !.n = @ + 1])
            ELSE [stp |-> stp, w |-> w, done |-> FALSE]
      [] OTHER ->
            \* send.send(()).await.unwrap()
            IF Len(stp.ch) < StepCap
            THEN Step_poll(s, [stp EXCEPT !.ch = Append(@, 0), !.at = "top",
                                          !.sent = @ + 1], w)
            ELSE [stp |-> stp, w |-> w, done |-> FALSE]

\* self.steps.retain_mut(|step| if !step.2 { poll(step.0).is_pending() }
\* else { true }): a step that completes is removed there and then.
RECURSIVE Executor_retain(_, _, _, _, _)
Executor_retain(s, todo, kept, fin, w) ==
    IF todo = << >> THEN [steps |-> kept, fin |-> fin, w |-> w]
    ELSE LET stp == Head(todo) IN
         IF stp.flag
         THEN Executor_retain(s, Tail(todo), Append(kept, stp), fin, w)
         ELSE LET r == Step_poll(s, stp, w) IN
              IF r.done
              THEN Executor_retain(s, Tail(todo), kept, Append(fin, r.stp),
                                   r.w)
              ELSE Executor_retain(s, Tail(todo), Append(kept, r.stp), fin,
                                   r.w)

\* for step in steps { if step.1.try_recv().is_ok() { count += 1; step.2 =
\* true } }
Executor_recv(steps) ==
    [i \in 1 .. Len(steps) |->
        IF steps[i].ch # << >>
        THEN [steps[i] EXCEPT !.ch = Tail(@), !.flag = TRUE]
        ELSE steps[i]]

Executor_count(steps) ==
    Cardinality({ i \in 1 .. Len(steps) : steps[i].ch # << >> })

\* Variant: the steps are not looked at.
Executor_ready_NoSteps(steps, toWait) == toWait = "none"

\* if self.steps.is_empty() && self.to_wait.is_none() { Ready } else { Pending }
Executor_ready(steps, toWait) == steps = << >> /\ toWait = "none"

\* self.waiting >= self.steps.len() && !self.steps.is_empty()
Executor_fire(count, steps) == count >= Len(steps) /\ steps # << >>

\* The rest of Executor::poll once no end action is pending: the steps are
\* polled, their signals counted, the end action (present(1)) is started when
\* all have signalled, and the result is decided.
Executor_body(s, e, q, n) ==
    LET r == Executor_retain(s, e.steps, << >>, e.fin,
                             [sig |-> e.sig, inbox |-> q, n |-> n])
        got == Executor_recv(r.steps)
        cnt == e.waiting + Executor_count(r.steps)
        fire == Executor_fire(cnt, got)
        room == Len(r.w.inbox) < InboxCap
        wait == IF ~fire THEN "none" ELSE IF room THEN "await" ELSE "send"
        steps == IF fire
                 THEN [i \in 1 .. Len(got) |-> [got[i] EXCEPT !.flag = FALSE]]
                 ELSE got IN
    [ex |-> [pc |-> IF Executor_ready(steps, wait) THEN "ready"
                    ELSE "pending",
             steps |-> steps,
             sig |-> r.w.sig,
             toWait |-> wait,
             waiting |-> IF fire THEN 0 ELSE cnt,
             ends |-> IF fire THEN e.ends + 1 ELSE e.ends,
             fin |-> r.fin],
     inbox |-> IF fire /\ room
               THEN Enqueue(r.w.inbox, [Msg(s, "Present", "none", << >>)
                                            EXCEPT !.n = r.w.n + 1])
               ELSE r.w.inbox,
     n |-> IF fire /\ room THEN r.w.n + 1 ELSE r.w.n]

\* Executor::poll, as the scene that awaits the Executor is polled.  A
\* pending end action is polled first: while it is pending nothing else
\* happens.
Executor_poll(s) ==
    /\ AtOp(s, "Exec")
    /\ LET e == IF ex.pc = "none" THEN Executor_new(script[s][spc[s]].val)
                ELSE ex IN
       IF e.toWait = "send"
       THEN \* present(1) still waits for room in the inbox
            /\ EngineSender_send(s, Msg(s, "Present", "none", << >>))
            /\ ex' = [e EXCEPT !.toWait = "await"]
            /\ UNCHANGED << resolved, spc >>
       ELSE /\ e.toWait = "await" => resolved[s]
            /\ LET r == Executor_body(s, [e EXCEPT !.toWait = "none"],
                                      inbox, nsent[s]) IN
                /\ ex' = r.ex
                /\ inbox' = r.inbox
                /\ nsent' = [nsent EXCEPT ![s] = r.n]
                /\ spc' = [spc EXCEPT ![s] = IF r.ex.pc = "ready" THEN @ + 1
                                             ELSE @]
            /\ resolved' = [resolved EXCEPT ![s] = FALSE]
    /\ ex' # ex
    /\ UNCHANGED << scenes, counter, waiting, nodes, epc, panic, script, st,
                    refReply, signalVars, tick, presentRecv, presentRes, chk,
                    trueChecks, ndisp, created, inited, last, hostVars,
                    info, tickLimit, gotVal, dropped, tw >>

\* The Rect handles of the scene whose droped is still false: those it got
\* from spawn and has not taken through Rect::drop to its end.
HeldRects(s) ==
    Cardinality({ j \in 1 .. (spc[s] - 1) : script[s][j].op = "Spawn"
                                            /\ script[s][j].kind = "RectNode" })
        - Cardinality({ j \in 1 .. (spc[s] - 1) : script[s][j].op = "Drop" })

\* Variant: the handle is let go whatever droped says.
Rect_Drop_Released(s) ==
    /\ ScenePolled(s)
    /\ st[s] = "running"
    /\ spc[s] > Len(script[s])
    /\ HeldRects(s) > 0
    /\ st' = [st EXCEPT ![s] = "done"]
    /\ UNCHANGED << hostVars, extVars, engineVars, script, spc, resolved,
                    refReply, signalVars, obsVars >>

\* impl Drop for Rect, as the body of the scene ends and its locals go out of
\* scope: if !self.droped { eprintln!(..); std::process::abort() }
Rect_Drop(s) ==
    /\ ScenePolled(s)
    /\ st[s] = "running"
    /\ spc[s] > Len(script[s])
    /\ HeldRects(s) > 0
    /\ epc' = "aborted"
    /\ UNCHANGED << hostVars, extVars, scenes, counter, inbox, waiting, nodes,
                    panic, sceneVars, signalVars, obsVars >>

\* The scene's future returns: its JoinHandle reports finished
SceneFinish(s) ==
    /\ ScenePolled(s)
    /\ st[s] = "running"
    /\ spc[s] > Len(script[s])
    /\ HeldRects(s) = 0
    /\ st' = [st EXCEPT ![s] = "done"]
    /\ UNCHANGED << hostVars, extVars, engineVars, script, spc, resolved, refReply, signalVars,
                    obsVars >>

\* -------------------------------------------------------- specification
Next ==
    \/ \E scr \in Scripts : CreateScene(scr)
    \/ RunStart
    \/ RecvNone
    \/ RecvPresent
    \/ RecvCreateNode
    \/ RecvCreateRef
    \/ RecvUpdate
    \/ HostRender
    \/ \E s \in SceneIds : Present_send(s)
    \/ \E s \in SceneIds : Present_resume(s)
    \/ \E s \in SceneIds : Spawn_ref(s)
    \/ \E s \in SceneIds : Spawn_node(s)
    \/ \E s \in SceneIds : SceneTask_update(s)
    \/ \E s \in SceneIds : RawCreateNode(s)
    \/ \E s \in SceneIds : Set_blocked(s)
    \/ \E s \in SceneIds : Set_send(s)
    \/ \E s \in SceneIds : Set_update(s)
    \/ \E s \in SceneIds : Rect_Drop(s)
    \/ \E s \in SceneIds : SceneFinish(s)

Spec == Init /\ [][Next]_vars

\* The scenes that set and read a Signal.
NextSignal ==
    \/ \E scr \in SignalScripts : CreateScene(scr)
    \/ RunStart
    \/ RecvNone
    \/ RecvPresent
    \/ RecvUpdate
    \/ HostRender
    \/ \E s \in SceneIds : Present_send(s)
    \/ \E s \in SceneIds : Present_resume(s)
    \/ \E s \in SceneIds : Set_blocked(s)
    \/ \E s \in SceneIds : Set_send(s)
    \/ \E s \in SceneIds : Set_update(s)
    \/ \E s \in SceneIds : Get_call(s)
    \/ \E s \in SceneIds : SceneFinish(s)

SpecSignal == Init /\ [][NextSignal]_vars

\* The scenes that drop the receiving end of a reply slot.
NextDrop ==
    \/ \E scr \in DropScripts : CreateScene(scr)
    \/ RunStart
    \/ RecvNone
    \/ RecvPresent
    \/ RecvCreateRef
    \/ RecvUpdate
    \/ HostRender
    \/ \E s \in SceneIds : Present_send(s)
    \/ \E s \in SceneIds : Present_resume(s)
    \/ \E s \in SceneIds : SceneTask_update(s)
    \/ \E s \in SceneIds : Present_dropped(s)
    \/ \E s \in SceneIds : CreateRef_dropped(s)
    \/ \E s \in SceneIds : SceneFinish(s)

SpecDrop == Init /\ [][NextDrop]_vars

\* The scenes around a CreateNode with a builder of the wrong kind.
NextBuilder ==
    \/ \E scr \in BuilderScripts : CreateScene(scr)
    \/ RunStart
    \/ RecvNone
    \/ RecvPresent
    \/ RecvCreateNode
    \/ RecvCreateRef
    \/ HostRender
    \/ \E s \in SceneIds : Present_send(s)
    \/ \E s \in SceneIds : Present_resume(s)
    \/ \E s \in SceneIds : Spawn_ref(s)
    \/ \E s \in SceneIds : Spawn_node(s)
    \/ \E s \in SceneIds : RawCreateNodeOther(s)
    \/ \E s \in SceneIds : Rect_Drop(s)
    \/ \E s \in SceneIds : SceneFinish(s)

SpecBuilder == Init /\ [][NextBuilder]_vars

IsTween(scr) == \E j \in 1 .. Len(scr) : scr[j].op = "Tween"

\* The host that plays one scene awaiting a tween future, next to scenes that
\* present.
CreateTweenScene(scr) ==
    /\ IsTween(scr) => \A s \in SceneIds : ~IsTween(script[s])
    /\ CreateScene(scr)

NextTween ==
    \/ \E scr \in TweenScripts : CreateTweenScene(scr)
    \/ RunStart
    \/ RecvNone
    \/ RecvPresent
    \/ RecvUpdate
    \/ HostRender
    \/ \E s \in SceneIds : Present_send(s)
    \/ \E s \in SceneIds : Present_resume(s)
    \/ \E s \in SceneIds : Tween_runners(s)
    \/ \E s \in SceneIds : Tween_update(s)
    \/ \E s \in SceneIds : Tween_present(s)
    \/ \E s \in SceneIds : Tween_resume(s)
    \/ \E s \in SceneIds : SceneFinish(s)

InitTween == InitWith(MaxTweenTick)

SpecTween == InitTween /\ [][NextTween]_vars

\* The host that plays one scene submitting faster than the Engine receives,
\* next to scenes that send one message.
CreateFloodScene(scr) ==
    /\ Len(scr) > 1 => \A s \in SceneIds : Len(script[s]) <= 1
    /\ CreateScene(scr)

NextInbox ==
    \/ \E scr \in InboxScripts : CreateFloodScene(scr)
    \/ RunStart
    \/ RecvNone
    \/ RecvPresent
    \/ RecvUpdate
    \/ HostRender
    \/ \E s \in SceneIds : Present_send(s)
    \/ \E s \in SceneIds : Present_resume(s)
    \/ \E s \in SceneIds : SceneTask_update(s)
    \/ \E s \in SceneIds : SceneFinish(s)

SpecInbox == Init /\ [][NextInbox]_vars

\* The host that creates a scene after an earlier one has completed.
NextIds ==
    \/ \E scr \in IdScripts : CreateSceneAgain(scr)
    \/ RunStart
    \/ RecvNone
    \/ RecvPresent
    \/ RecvUpdate
    \/ HostRender
    \/ \E s \in SceneIds : Present_send(s)
    \/ \E s \in SceneIds : Present_resume(s)
    \/ \E s \in SceneIds : SceneTask_update(s)
    \/ \E s \in SceneIds : SceneFinish(s)

SpecIds == Init /\ [][NextIds]_vars

\* The frame lengths of the hosts that play the tweens: ten and five frames
\* a second (Engine::new takes fps from its caller).
FrameDeltas == { InfoDelta, 2 * InfoDelta }

InitMeta == \E d \in FrameDeltas : InitInfo(MaxTick, Registered, d)

\* Scenes that read the shared metadata while the host drives the Engine.
NextMeta ==
    \/ \E scr \in InfoScripts : CreateScene(scr)
    \/ RunStart
    \/ RecvNone
    \/ RecvPresent
    \/ RecvUpdate
    \/ HostRender
    \/ \E s \in SceneIds : Present_send(s)
    \/ \E s \in SceneIds : Present_resume(s)
    \/ \E s \in SceneIds : SceneTask_update(s)
    \/ \E s \in SceneIds : SceneTask_delta(s)
    \/ \E s \in SceneIds : SceneTask_fps(s)
    \/ \E s \in SceneIds : SceneTask_info(s)
    \/ \E s \in SceneIds : SceneFinish(s)

SpecMeta == InitMeta /\ [][NextMeta]_vars

InitPace == \E d \in FrameDeltas : InitInfo(MaxTweenTick, Registered, d)

\* The tween futures under hosts of different frame rates.
SpecPace == InitPace /\ [][NextTween]_vars

IsExec(scr) == \E j \in 1 .. Len(scr) : scr[j].op = "Exec"

\* The host that plays one scene awaiting an Executor, next to scenes that
\* present.
CreateExecScene(scr) ==
    /\ IsExec(scr) => \A s \in SceneIds : ~IsExec(script[s])
    /\ CreateScene(scr)

NextExec ==
    \/ \E scr \in ExecScripts : CreateExecScene(scr)
    \/ RunStart
    \/ RecvNone
    \/ RecvPresent
    \/ RecvUpdate
    \/ HostRender
    \/ \E s \in SceneIds : Present_send(s)
    \/ \E s \in SceneIds : Present_resume(s)
    \/ \E s \in SceneIds : Executor_poll(s)
    \/ \E s \in SceneIds : SceneFinish(s)

SpecExec == Init /\ [][NextExec]_vars

\* The scenes that call present(frames).
NextFrames ==
    \/ \E scr \in FrameScripts : CreateScene(scr)
    \/ RunStart
    \/ RecvNone
    \/ RecvPresent
    \/ RecvUpdate
    \/ HostRender
    \/ \E s \in SceneIds : Present_send(s)
    \/ \E s \in SceneIds : Present_resume(s)
    \/ \E s \in SceneIds : Present_loop(s)
    \/ \E s \in SceneIds : Present_loop_resume(s)
    \/ \E s \in SceneIds : SceneTask_update(s)
    \/ \E s \in SceneIds : SceneFinish(s)

SpecFrames == Init /\ [][NextFrames]_vars

Spawns(scr) == \E j \in 1 .. Len(scr) : scr[j].op = "Spawn"

\* One iteration of the loop of run: the yield, the try_recv and its arm, the
\* prune and the check.
EngineStep ==
    \/ RecvNone
    \/ RecvPresent
    \/ RecvCreateRef
    \/ RecvUpdate

\* One poll of the scene's task, up to its next await.
SceneStep(s) ==
    \/ Present_send(s)
    \/ Present_resume(s)
    \/ Spawn_ref(s)
    \/ SceneTask_update(s)
    \/ SceneFinish(s)

\* The host that pumps run until finished() says so.
NextLive ==
    \/ \E scr \in LiveScripts : CreateScene(scr)
    \/ RunStart
    \/ HostRender
    \/ EngineStep
    \/ \E s \in SceneIds : SceneStep(s)

InitLive == InitWith(LiveTick)

\* The host loop is sequential code, so a run call or a render that is due
\* is made; the current-thread runtime polls the run future and every woken
\* scene task in turn (run yields once per iteration).
FairLive ==
    /\ WF_vars(RunStart)
    /\ WF_vars(HostRender)
    /\ WF_vars(EngineStep)
    /\ \A s \in SceneIds : WF_vars(SceneStep(s))

SpecLive == InitLive /\ [][NextLive]_vars /\ FairLive

\* The host registers none, one or several managers and then plays one scene
\* that spawns a node, next to scenes that submit and present.
NextManagers ==
    \/ \E kind \in ManagerKinds : Engine_register_node(kind)
    \/ \E scr \in ManagerScripts :
            (Spawns(scr) => \A s \in SceneIds : ~Spawns(script[s]))
                /\ CreateScene(scr)
    \/ RunStart
    \/ RecvNone
    \/ RecvPresent
    \/ RecvCreateNode
    \/ RecvCreateRef
    \/ RecvUpdate
    \/ HostRender
    \/ \E s \in SceneIds : Present_send(s)
    \/ \E s \in SceneIds : Present_resume(s)
    \/ \E s \in SceneIds : Spawn_ref(s)
    \/ \E s \in SceneIds : Spawn_node(s)
    \/ \E s \in SceneIds : SceneTask_update(s)
    \/ \E s \in SceneIds : Rect_set_color(s)
    \/ \E s \in SceneIds : Rect_drop_submit(s)
    \/ \E s \in SceneIds : Rect_drop_send(s)
    \/ \E s \in SceneIds : Rect_drop_done(s)
    \/ \E s \in SceneIds : SceneFinish(s)

InitManagers == InitReg(MaxTick, << >>)

SpecManagers == InitManagers /\ [][NextManagers]_vars

\* The host of the end-to-end run: one scene that spawns a node, next to
\* scenes that only present.
CreateRectScene(scr) ==
    /\ Spawns(scr) => \A s \in SceneIds : ~Spawns(script[s])
    /\ CreateScene(scr)

\* One scene that holds a Rect handle to its end, next to scenes that submit.
NextHandle ==
    \/ \E scr \in HandleScripts : CreateRectScene(scr)
    \/ RunStart
    \/ RecvNone
    \/ RecvPresent
    \/ RecvCreateNode
    \/ RecvCreateRef
    \/ RecvUpdate
    \/ HostRender
    \/ \E s \in SceneIds : Present_send(s)
    \/ \E s \in SceneIds : Present_resume(s)
    \/ \E s \in SceneIds : Spawn_ref(s)
    \/ \E s \in SceneIds : Spawn_node(s)
    \/ \E s \in SceneIds : SceneTask_update(s)
    \/ \E s \in SceneIds : Rect_drop_submit(s)
    \/ \E s \in SceneIds : Rect_drop_send(s)
    \/ \E s \in SceneIds : Rect_drop_done(s)
    \/ \E s \in SceneIds : Rect_Drop(s)
    \/ \E s \in SceneIds : SceneFinish(s)

SpecHandle == Init /\ [][NextHandle]_vars

NextRect ==
    \/ \E scr \in RectScripts : CreateRectScene(scr)
    \/ RunStart
    \/ RecvNone
    \/ RecvPresent
    \/ RecvCreateNode
    \/ RecvCreateRef
    \/ RecvUpdate
    \/ HostRender
    \/ \E s \in SceneIds : Present_send(s)
    \/ \E s \in SceneIds : Present_resume(s)
    \/ \E s \in SceneIds : Spawn_ref(s)
    \/ \E s \in SceneIds : Spawn_node(s)
    \/ \E s \in SceneIds : SceneTask_update(s)
    \/ \E s \in SceneIds : Rect_set_color(s)
    \/ \E s \in SceneIds : Rect_drop_submit(s)
    \/ \E s \in SceneIds : Rect_drop_send(s)
    \/ \E s \in SceneIds : Rect_drop_done(s)
    \/ \E s \in SceneIds : SceneFinish(s)

SpecRect == Init /\ [][NextRect]_vars

\* One scene that changes the properties of its Rect, next to scenes that
\* submit or present.
NextProps ==
    \/ \E scr \in PropScripts : CreateRectScene(scr)
    \/ RunStart
    \/ RecvNone
    \/ RecvPresent
    \/ RecvCreateNode
    \/ RecvCreateRef
    \/ RecvUpdate
    \/ HostRender
    \/ \E s \in SceneIds : Present_send(s)
    \/ \E s \in SceneIds : Present_resume(s)
    \/ \E s \in SceneIds : Spawn_ref(s)
    \/ \E s \in SceneIds : Spawn_node(s)
    \/ \E s \in SceneIds : SceneTask_update(s)
    \/ \E s \in SceneIds : Rect_set_size(s)
    \/ \E s \in SceneIds : Rect_set_color(s)
    \/ \E s \in SceneIds : Rect_set_position(s)
    \/ \E s \in SceneIds : Rect_drop_submit(s)
    \/ \E s \in SceneIds : Rect_drop_send(s)
    \/ \E s \in SceneIds : Rect_drop_done(s)
    \/ \E s \in SceneIds : SceneFinish(s)

SpecProps == Init /\ [][NextProps]_vars

\* One scene whose Rects live side by side under the one RectNode.
NextMultiRect ==
    \/ \E scr \in MultiRectScripts : CreateRectScene(scr)
    \/ RunStart
    \/ RecvNone
    \/ RecvPresent
    \/ RecvCreateNode
    \/ RecvCreateRef
    \/ RecvUpdate
    \/ HostRender
    \/ \E s \in SceneIds : Present_send(s)
    \/ \E s \in SceneIds : Present_resume(s)
    \/ \E s \in SceneIds : Spawn_ref(s)
    \/ \E s \in SceneIds : Spawn_node(s)
    \/ \E s \in SceneIds : SceneTask_update(s)
    \/ \E s \in SceneIds : Rect_set_color(s)
    \/ \E s \in SceneIds : Rect_drop_submit(s)
    \/ \E s \in SceneIds : Rect_drop_send(s)
    \/ \E s \in SceneIds : Rect_drop_done(s)
    \/ \E s \in SceneIds : Rect_Drop(s)
    \/ \E s \in SceneIds : SceneFinish(s)

SpecMultiRect == Init /\ [][NextMultiRect]_vars


\* ------------------------------------------------------------ properties
Live(s) == st[s] \notin { "none", "done" }

\* The scene is blocked inside present and its waiter is in Engine.waiting.
Parked(s) ==
    /\ st[s] = "awaitPresent"
    /\ ~resolved[s]
    /\ s \in Range(waiting)

NumPresents(scr) == Cardinality({ i \in 1 .. Len(scr) : scr[i].op = "Present" })

\* Present calls of the scene that have returned
PresentsDone(s) ==
    Cardinality({ i \in 1 .. Len(script[s]) :
                    i < spc[s] /\ script[s][i].op = "Present" })

\* C1: a scene making n Present(1) calls is resumed exactly n times: each
\* waiter is answered in the run call right after the one that received its
\* Present, in strictly increasing ticks (never twice in one tick), the scene
\* takes the answer within that run call (no call returns with an answer
\* untaken), and a waiter still unanswered was received in the current tick
\* (none is skipped by a flush).
C1_PresentResumesOncePerTick ==
    \A s \in SceneIds :
        /\ Len(presentRes[s]) <= Len(presentRecv[s])
        /\ \A i \in 1 .. Len(presentRes[s]) :
                presentRes[s][i] = presentRecv[s][i] + 1
        /\ \A i, j \in 1 .. Len(presentRes[s]) :
                i < j => presentRes[s][i] < presentRes[s][j]
        /\ Len(presentRecv[s]) > Len(presentRes[s]) =>
                presentRecv[s][Len(presentRecv[s])] = tick
        /\ PresentsDone(s) = Len(presentRes[s]) - (IF resolved[s] THEN 1 ELSE 0)
        /\ epc \in { "host", "returned", "stopped" } => ~resolved[s]
        /\ st[s] = "done" => Len(presentRes[s]) = NumPresents(script[s])

\* A scene of two Present calls ran to completion, resumed in ticks 2 and 3.
C1_Witness ==
    \E s \in SceneIds :
        /\ st[s] = "done"
        /\ NumPresents(script[s]) = 2
        /\ presentRes[s] = << 2, 3 >>

\* C2: when run has returned, every scene whose coroutine has not completed
\* is parked in Present.
C2_ReturnsOnlyWhenSettled ==
    epc = "returned" => \A s \in SceneIds : Live(s) => Parked(s)

\* run returned with two live scenes, both parked, on a check that counted
\* two scenes and two waiters.
C2_Witness ==
    /\ epc = "returned"
    /\ chk.sc = 2
    /\ chk.w = 2
    /\ \E s, u \in SceneIds : s # u /\ Parked(s) /\ Parked(u)

\* C3: every frame-boundary check sees a pruned registry, exits exactly when
\* scenes.len() <= waiting.len(), and the condition is true at exactly one
\* check of a run call, the one that returns.
C3_FrameBoundaryCheck ==
    /\ chk.made => chk.pruned /\ (chk.exit <=> (chk.sc <= chk.w))
    /\ (epc = "run" => trueChecks = 0)
    /\ (epc = "returned" => trueChecks = 1 /\ chk.exit)

\* run returned on a check from which a completed scene had been pruned.
C3_Witness ==
    /\ epc = "returned"
    /\ chk.made
    /\ trueChecks = 1
    /\ counter = 2
    /\ chk.sc = 1
    /\ chk.w = 1
    /\ \E s \in SceneIds : st[s] = "done"

\* C4: a waiter is answered only by the flush that starts a run call, which
\* answers every queued waiter, leaves the waiting list empty and receives
\* no message; within a run call no queued waiter is answered or removed.
C4_WaitersResolvedAtNextRunStart ==
    [][ /\ \A s \in SceneIds :
              (resolved'[s] /\ ~resolved[s]) =>
                  /\ tick' = tick + 1
                  /\ s \in Range(waiting)
                  /\ inbox' = inbox
                  /\ ndisp' = ndisp
        /\ tick' = tick + 1 =>
              /\ waiting' = << >>
              /\ \A s \in Range(waiting) : resolved'[s]
        /\ tick' = tick =>
              \A s \in Range(waiting) :
                  s \in Range(waiting') /\ resolved'[s] = resolved[s]
      ]_vars

\* A run call has just flushed a waiter queued in the previous call and has
\* not yet gone round its loop.
C4_Witness ==
    /\ epc = "run"
    /\ tick >= 2
    /\ chk = NoCheck
    /\ waiting = << >>
    /\ \E s \in SceneIds : resolved[s] /\ st[s] = "awaitPresent"


\* The values the producer has put into its Signal's channel, in order
SetVals(q) ==
    LET f == SelectSeq(q, LAMBDA o : o.op = "Set") IN
    [i \in 1 .. Len(f) |-> f[i].val]

SentValues(s) ==
    SetVals(SubSeq(script[s], 1, spc[s] - 1))
        \o (IF st[s] = "setUpdate" THEN << script[s][spc[s]].val >> ELSE << >>)

Vals(o) == [i \in 1 .. Len(o) |-> o[i].v]

\* The scene has returned from Signal::set and has not begun its next call.
AfterSet(s) ==
    /\ st[s] = "running"
    /\ spc[s] > 1
    /\ script[s][spc[s] - 1].op = "Set"

C6_UpdateProcessedOnReturn ==
    \A s \in SceneIds :
        AfterSet(s) =>
            /\ ndisp[s] = nsent[s]
            /\ sigVal[s] \in Range(Vals(obs[s]))

\* C6 amended: at the step in which set returns, its Update is the newest
\* message of the inbox and not yet received, and the value is in the
\* channel or was already polled.
C6_UpdateQueuedOnReturn ==
    [][ \A s \in SceneIds :
            (st[s] = "setUpdate" /\ st'[s] = "running") =>
                /\ inbox' # << >>
                /\ [inbox'[Len(inbox')] EXCEPT !.n = 0] = Msg(s, "Update", "none", << >>)
                /\ ndisp'[s] < nsent'[s]
                /\ \/ sigVal'[s] \in Range(sigCh'[s])
                   \/ sigVal'[s] \in Range(Vals(obs'[s]))
      ]_vars

\* set has returned; its Update waits in the inbox and the value is unread.
C6_Witness ==
    \E s \in SceneIds :
        /\ AfterSet(s)
        /\ inbox # << >>
        /\ [inbox[Len(inbox)] EXCEPT !.n = 0] = Msg(s, "Update", "none", << >>)
        /\ ndisp[s] < nsent[s]
        /\ sigCh[s] = << sigVal[s] >>

\* C7: the receiver made for a request is filed under the id of the
\* rectangle built from that request's builder, and under no other
\* rectangle's id.
C7_CompanionMatchesNode ==
    \A i \in 1 .. Len(Registered) :
        \A r \in Range(nodes[i].rects) :
            \A c \in Range(nodes[i].receivers) :
                (c.req = r.builder) <=> (c.id = r.id)

\* C8: init_node runs only for an object whose create_node ran, and at most
\* one object is between its create_node and its init_node.
C8_SinglePendingCreate ==
    /\ inited \subseteq created
    /\ Cardinality(created \ inited) <= 1

\* C9: a CreateRef whose tag no registered manager has makes the Engine
\* panic with the kind's name; the reply slot stays unanswered and no
\* manager made a channel for the request.
C9_UnregisteredCreateRefPanics ==
    (last.msg.type = "CreateRef" /\ last.msg.kind \notin Range(Registered)) =>
        /\ panic = last.msg.kind
        /\ refReply[last.msg.from] = << >>
        /\ st[last.msg.from] = "awaitRef"
        /\ last.msg.req \notin created
        /\ \A i \in 1 .. Len(Registered) :
              \A c \in Range(nodes[i].receivers) : c.req # last.msg.req

\* The Engine panicked on a CreateRef for the unregistered VideoNode.
C9_Witness ==
    /\ panic = "VideoNode"
    /\ last.msg.type = "CreateRef"
    /\ last.msg.kind = "VideoNode"

\* C10: a CreateNode whose tag no registered manager has is fatal.
C10_UnregisteredCreateNodeFatal ==
    (last.msg.type = "CreateNode" /\ last.msg.kind \notin Range(Registered)) =>
        panic # "none"


\* ---------------------------------------------------------------- C11
WithSubmit == << OpSpawn("RectNode"), OpSetColor(1), OpUpdate, OpPresent, OpDrop >>
NoSubmit == << OpSpawn("RectNode"), OpSetColor(1), OpPresent, OpDrop >>

\* s is the one scene that spawns a node
OnlySpawner(s) ==
    /\ st[s] # "none"
    /\ \A o \in SceneIds \ { s } : ~Spawns(script[o])

\* the first run call has returned with s parked at its Present(1)
FirstRunReturned(s) ==
    /\ epc = "returned"
    /\ tick = 1
    /\ st[s] = "awaitPresent"

\* the drop convention is over and the Engine has processed all s sent
DropProcessed(s) ==
    /\ spc[s] > Len(script[s])
    /\ ndisp[s] = nsent[s]

LiveNodes == Len(nodes[1].rects)

\* no other scene submits Updates of its own
OnlySubmitter(s) ==
    \A o \in SceneIds \ { s } : script[o] # << OpUpdate >>

\* C11 as stated: a scene that spawns one node, sets its colour and calls
\* Present(1) finds, when the first run call returns, one live node with the
\* new colour applied.
C11_ColourAppliedAtFirstReturn ==
    \A s \in SceneIds :
        (script[s] = NoSubmit /\ OnlySpawner(s) /\ OnlySubmitter(s)
                /\ FirstRunReturned(s))
            => (LiveNodes = 1 /\ nodes[1].rects[1].color = 1)

\* C11 amended: the colour a handle sets is applied by the next Update the
\* manager processes.  With one scene that spawns one node, either way there
\* is exactly one live node when the first run call returns, and none (and no
\* receiver) once the drop convention is over and its last Update has been
\* processed.  While that scene is the only one to send Updates: if it
\* submits an Update between setting the colour and Present(1), the node has
\* the new colour when the first run call returns; if it does not, the node
\* still has the builder's colour.
C11_EndToEnd ==
    \A s \in SceneIds :
        OnlySpawner(s) =>
            /\ (script[s] = WithSubmit /\ FirstRunReturned(s))
                    => /\ LiveNodes = 1
                       /\ OnlySubmitter(s) => nodes[1].rects[1].color = 1
            /\ (script[s] = NoSubmit /\ FirstRunReturned(s))
                    => /\ LiveNodes = 1
                       /\ OnlySubmitter(s) => nodes[1].rects[1].color = 0
            /\ (script[s] \in { WithSubmit, NoSubmit } /\ DropProcessed(s))
                    => (LiveNodes = 0 /\ nodes[1].receivers = << >>)

\* A scene with the submit has been through both halves: its node was live
\* and coloured at the first return, and the drop convention has removed it.
C11_Witness ==
    \E s \in SceneIds :
        /\ script[s] = WithSubmit
        /\ OnlySpawner(s)
        /\ OnlySubmitter(s)
        /\ DropProcessed(s)
        /\ presentRecv[s] = << 1 >>
        /\ inited = { << s, 1 >> }
        /\ LiveNodes = 0

\* ---------------------------------------------------------------- C17
\* the send numbers of the messages of scene s that wait in the inbox
Pending(s) ==
    LET q == SelectSeq(inbox, LAMBDA m : m.from = s) IN
    [i \in 1 .. Len(q) |-> q[i].n]

\* C17: the messages of one scene are received and dispatched in the order
\* the scene sent them, whatever the other scenes and the Engine loop do in
\* between: the messages of s that wait in the inbox carry the next send
\* numbers in order, and the message the Engine dispatched last was the next
\* one of its sender.
C17_PerSceneFifo ==
    /\ \A s \in SceneIds :
        Pending(s) = [i \in 1 .. (nsent[s] - ndisp[s]) |-> ndisp[s] + i]
    /\ last.msg.type # "none" => last.msg.n = ndisp[last.msg.from]

\* Two messages of one scene wait in the inbox with a message of another
\* scene between them, after earlier messages of both were dispatched.
C17_Witness ==
    \E s, o \in SceneIds :
        /\ s # o
        /\ ndisp[s] >= 1
        /\ ndisp[o] >= 1
        /\ \E i, j, k \in 1 .. Len(inbox) :
            /\ i < j /\ j < k
            /\ inbox[i].from = s /\ inbox[j].from = o /\ inbox[k].from = s

\* ---------------------------------------------------------------- C18
\* the value of the latest set the scene completed before operation j
LastSet(scr, j) ==
    LET sets == { k \in 1 .. (j - 1) : scr[k].op = "Set" } IN
    IF sets = { } THEN 0
    ELSE scr[CHOOSE k \in sets : \A l \in sets : l <= k].val

\* C18: once set(v) has returned, get() returns v, whether or not the
\* consumer has polled v; and a get call is a plain read: in the step a scene
\* makes it, the scene moves on to its next operation (it is never parked),
\* no message enters the inbox and the Signal's channel is untouched.
C18_GetReadsCache ==
    [][\A s \in SceneIds :
        (AtOp(s, "Get") /\ spc'[s] = spc[s] + 1) =>
            /\ gotVal'[s] = Append(gotVal[s], LastSet(script[s], spc[s]))
            /\ st'[s] = "running"
            /\ inbox' = inbox
            /\ nsent' = nsent
            /\ sigCh' = sigCh]_vars

\* A scene read back 1 and then 2; the consumer has polled 1 but 2 still
\* waits in the channel.
C18_Witness ==
    \E s \in SceneIds :
        /\ gotVal[s] = << 1, 2 >>
        /\ sigCh[s] = << 2 >>
        /\ Len(obs[s]) = 1

\* ---------------------------------------------------------------- C19
\* run starts its flush in this step
FlushStep == epc = "host" /\ tick' = tick + 1

\* the Engine takes a CreateRef for a registered kind in this step
CreateRefStep ==
    /\ epc = "run"
    /\ inbox # << >>
    /\ inbox' = Tail(inbox)
    /\ Head(inbox).type = "CreateRef"
    /\ ManagerFor(Head(inbox).kind) # 0

\* C19: when the receiving end of a reply slot was dropped before the Engine
\* answers it, the answer is a panic of the Engine: the flush that reaches a
\* Present waiter whose receiver is gone panics, and so does the answer to a
\* CreateRef whose receiver is gone; the answer is neither skipped nor kept
\* for later (the slot leaves the waiting list, no reply is recorded).
C19_DroppedReceiverPanics ==
    [][/\ (FlushStep /\ Range(waiting) \cap dropped # { })
            => (panic' = "reply receiver dropped" /\ waiting' = << >>)
       /\ (CreateRefStep /\ Head(inbox).from \in dropped)
            => (panic' = "reply receiver dropped" /\ refReply' = refReply)]_vars

\* A later run call reached a waiter whose receiver was dropped, after
\* answering the waiter queued before it.
C19_Witness ==
    \E s, o \in SceneIds :
        /\ panic = "reply receiver dropped"
        /\ s \in dropped
        /\ script[s][1].op = "PresentDropped"
        /\ presentRecv[s] # << >>
        /\ presentRes[s] = << >>
        /\ presentRes[o] # << >>
        /\ tick >= 2

\* ---------------------------------------------------------------- C20
\* the Engine hands a CreateNode to the manager its tag names in this step
CreateNodeStep ==
    /\ epc = "run"
    /\ inbox # << >>
    /\ inbox' = Tail(inbox)
    /\ Head(inbox).type = "CreateNode"
    /\ ManagerFor(Head(inbox).kind) # 0

\* C20: a CreateNode handed to a manager whose builder kind differs from the
\* kind of the boxed builder panics in the type-erased wrapper, before the
\* manager's own init_node is called: the manager's node list (and every
\* other part of it) is as before and no builder is recorded as initialised.
C20_WrongBuilderPanics ==
    [][(CreateNodeStep
            /\ Head(inbox).bkind # Registered[ManagerFor(Head(inbox).kind)])
        => /\ panic' = "builder downcast"
           /\ nodes' = nodes
           /\ inited' = inited]_vars

\* The wrapper panicked on a builder of another kind while the manager
\* already held a node of an earlier, well-typed CreateNode.
C20_Witness ==
    /\ panic = "builder downcast"
    /\ last.msg.type = "CreateNode"
    /\ last.msg.kind = "RectNode"
    /\ last.msg.bkind = OtherKind
    /\ Len(nodes[1].rects) = 1
    /\ last.msg.req \notin inited

\* ---------------------------------------------------------- C12, C13
\* s awaits a tween future
TweenScene(s) == st[s] # "none" /\ IsTween(script[s])

\* the value the runner of tween e gets in round r, in exact arithmetic
RunnerValue(e, r) == e.start + (r * InfoDelta * (e.end - e.start)) \div e.time

\* C12: the tweens of one future advance in lockstep.  In every round each
\* tween that remained at its start has had its runner invoked exactly once
\* (its runner has been invoked once in every round so far), a tween that was
\* removed earlier is not invoked again, and the value of round r is the start
\* plus r steps; for the ranges [0,1] and [1,0] over 1.0 with delta 0.1 the
\* runners get exactly 0.5 and 0.5 in round 5.
C12_TweensInLockstep ==
    \A s \in SceneIds :
        (TweenScene(s) /\ tw.round >= 1) =>
            LET set == TweenSets[script[s][1].val] IN
            /\ \A i \in 1 .. Len(tw.log) :
                /\ IF i \in tw.alive THEN Len(tw.log[i]) = tw.round
                   ELSE Len(tw.log[i]) < tw.round
                /\ \A r \in 1 .. Len(tw.log[i]) :
                        tw.log[i][r] = RunnerValue(set[i], r)
            /\ (script[s][1].val = 1 /\ tw.round >= 5)
                    => (tw.log[1][5] = 5 /\ tw.log[2][5] = 5)

\* The future of [0,1] and [1,0] has been through round 5 and beyond.
C12_Witness ==
    \E s \in SceneIds :
        /\ TweenScene(s)
        /\ script[s][1].val = 1
        /\ tw.round = 6
        /\ tw.alive = { 1, 2 }
        /\ tw.log[1][5] = 5
        /\ tw.log[2][5] = 5

\* messages the future has sent in its current round, by where it stands
SentInRound(s) ==
    CASE st[s] = "twUpdate" -> 0
      [] st[s] = "twPresent" -> 1
      [] OTHER -> 2

RoundMessage(n) == IF n % 2 = 1 THEN "Update" ELSE "Present"

\* C13: whatever the number of tweens, every round of a tween future sends
\* exactly one Update and then exactly one Present, both after all runner
\* invocations of the round: the future has sent two messages per finished
\* round, its messages alternate Update, Present, and when a message of round
\* r is out every tween that remained at the start of r has been invoked in r.
C13_OneUpdateOnePresentPerRound ==
    \A s \in SceneIds :
        TweenScene(s) =>
            /\ nsent[s] = IF tw.round = 0 THEN 0
                          ELSE 2 * (tw.round - 1) + SentInRound(s)
            /\ \A i \in 1 .. Len(inbox) :
                inbox[i].from = s => inbox[i].type = RoundMessage(inbox[i].n)
            /\ (last.msg.type # "none" /\ last.msg.from = s)
                    => last.msg.type = RoundMessage(last.msg.n)
            /\ Len(presentRecv[s]) = ndisp[s] \div 2
            /\ nsent[s] > 2 * (tw.round - 1)
                    => \A i \in tw.alive : Len(tw.log[i]) = tw.round

\* A future of two tweens of different durations is parked in its last
\* round: one tween left earlier, the other in this round, and the round
\* still sent its Update and its Present.
C13_Witness ==
    \E s \in SceneIds :
        /\ TweenScene(s)
        /\ script[s][1].val = 3
        /\ tw.round >= 1
        /\ tw.tweens = << >>
        /\ Len(tw.log[1]) < Len(tw.log[2])
        /\ st[s] = "twAwait"
        /\ nsent[s] = 2 * tw.round
        /\ ndisp[s] = nsent[s]

\* ------------------------------------------------------ C14, C15, C16
\* s awaits an Executor that has been polled
ExecScene(s) == st[s] # "none" /\ IsExec(script[s]) /\ ex.pc # "none"

\* C14: the Executor is a barrier: a step begins iteration r + 1 only once
\* every other live step has signalled round r and the end action of round r
\* has been started.
C14_NoStepRunsAhead ==
    \A s \in SceneIds :
        ExecScene(s) =>
            \A i, j \in 1 .. Len(ex.steps) :
                /\ ex.steps[i].it <= ex.steps[j].sent + 1
                /\ ex.steps[i].it <= ex.ends + 1

\* every step the Executor was given, live or completed
AllSteps == Range(ex.steps) \cup Range(ex.fin)

\* the steps that take part in round r, and the rounds all of them signalled
InRound(r) == { p \in AllSteps : r * InfoDelta < p.time + InfoDelta }
Signalled(r) == InRound(r) # { } /\ \A p \in InRound(r) : p.sent >= r
Rounds == UNION { 1 .. p.time : p \in AllSteps }
SignalledRounds == Cardinality({ r \in Rounds : Signalled(r) })

\* C15: each time every live step has sent its signal of the round the end
\* action is invoked exactly once, and it is not invoked in a round some live
\* step has not signalled; this holds for every round, the one of a step's
\* last iteration included: the end action has been invoked once per round
\* that all its steps signalled.
C15_EndActionOncePerRound ==
    \A s \in SceneIds :
        ExecScene(s) => ex.ends = SignalledRounds

\* C16: the Executor resolves exactly when every step future has completed
\* and no end action is pending: it has resolved if and only if no step is
\* left and no end action is unresolved, and an Executor without steps
\* resolves on its first poll without invoking the end action.
C16_ResolvesWhenAllDone ==
    \A s \in SceneIds :
        ExecScene(s) =>
            /\ (ex.pc = "ready") <=> (ex.steps = << >> /\ ex.toWait = "none")
            /\ (spc[s] > 1) <=> (ex.pc = "ready")
            /\ ExecSets[script[s][1].val] = << >>
                    => (ex.pc = "ready" /\ ex.ends = 0)

\* The Executor of two steps of different lengths has resolved, after an end
\* action it had to wait for.
C16_Witness ==
    \E s \in SceneIds :
        /\ ExecScene(s)
        /\ script[s][1].val = 4
        /\ ex.pc = "ready"
        /\ Len(ex.fin) = 2
        /\ ex.ends >= 1
        /\ presentRes[s] # << >>

\* The scene is at a present(0) call.
AtPresentZero(s) ==
    /\ st[s] # "none"
    /\ spc[s] <= Len(script[s])
    /\ script[s][spc[s]] = OpPresentFrames(0)

\* C21: present(0) does nothing: the scene is never suspended in it, and the
\* step that takes the scene through it sends no message to the Engine, adds
\* no waiter and leaves the scene running at its next operation.
C21_PresentZeroDoesNothing ==
    /\ [](\A s \in SceneIds : AtPresentZero(s) => st[s] = "running")
    /\ [][\A s \in SceneIds :
            (AtPresentZero(s) /\ << spc[s], st[s], frame[s] >>' #
                                     << spc[s], st[s], frame[s] >>) =>
                /\ inbox' = inbox
                /\ nsent' = nsent
                /\ waiting' = waiting
                /\ resolved' = resolved
                /\ spc'[s] = spc[s] + 1
                /\ st'[s] = "running"]_vars

\* A scene has returned from present(0) in the first run call: it has sent
\* nothing, nothing waits, and it is about to send its Update.
C21_Witness ==
    \E s \in SceneIds :
        /\ script[s] = << OpPresentFrames(0), OpUpdate >>
        /\ spc[s] = 2
        /\ st[s] = "running"
        /\ nsent[s] = 0
        /\ tick = 1
        /\ inbox = << >>
        /\ waiting = << >>

\* The step is the dispatch of an Update, in which every Signal is polled.
PollStep == ndisp' # ndisp /\ Head(inbox).type = "Update"

\* C22: the consumer's poll never waits for a value: the dispatch that polls
\* goes through whether or not the channel holds one.  A poll that finds a
\* value returns it, the value of the latest set whose send completed, and
\* takes it out; a poll that finds none returns nothing.  After a poll the
\* channel is empty and only a set's send fills it again, so of two polls
\* with no set in between at most the first returns a value.
C22_PollTakesValueOnce ==
    [][\A s \in SceneIds :
          /\ PollStep =>
                /\ sigCh[s] # << >> =>
                      /\ Len(obs'[s]) = Len(obs[s]) + 1
                      /\ obs'[s][Len(obs'[s])].v = Head(sigCh[s])
                      /\ Head(sigCh[s]) = sigVal[s]
                /\ sigCh[s] = << >> => obs'[s] = obs[s]
                /\ sigCh'[s] = << >>
                /\ last'.msg = Head(inbox)
          /\ (~PollStep /\ sigCh'[s] # sigCh[s]) =>
                /\ sigCh'[s] = Append(sigCh[s], sigVal'[s])
                /\ st'[s] = "setUpdate"]_vars

\* Two scenes have each set their Signal once and two Updates have been
\* dispatched with no set in between: the first poll returned the value, the
\* second found the channel empty and returned nothing.
C22_Witness ==
    /\ last.msg.type = "Update"
    /\ ndisp[0] + ndisp[1] = 2
    /\ \A s \in { 0, 1 } :
            /\ Len(obs[s]) = 1
            /\ sigCh[s] = << >>
            /\ sigVal[s] = 1
            /\ st[s] # "setUpdate"

RenderFns == { "render", "audio_process" }

\* The render passes keep step with the run calls, the calls of a run call
\* are none of render and audio_process, and a pass is render and then
\* audio_process on every registered manager in registration order.
RenderKeepsStep ==
    /\ epc \in { "run", "returned", "aborted" } =>
            /\ passes = tick - 1
            /\ \A i \in 1 .. Len(calls) : calls[i].fn \notin RenderFns
    /\ epc \in { "host", "stopped" } =>
            /\ passes = tick
            /\ (tick > 0 =>
                    /\ Len(calls) = 2 * Len(nodes)
                    /\ \A i \in 1 .. Len(nodes) :
                            /\ calls[2 * i - 1] = Call(i, "render")
                            /\ calls[2 * i] = Call(i, "audio_process"))

\* C23: run never calls render or audio_process on a manager; each return of
\* run is followed by exactly one render pass before the next run call (the
\* passes made keep step with the run calls), the pass calls render and
\* audio_process on every registered manager in registration order, and it
\* changes neither the scene registry, the waiting list nor the inbox.
C23_OneRenderPassPerReturn ==
    /\ []RenderKeepsStep
    /\ [][passes' # passes =>
            /\ epc = "returned"
            /\ passes' = passes + 1
            /\ scenes' = scenes
            /\ waiting' = waiting
            /\ inbox' = inbox]_vars

\* The host has rendered after its second run call, with two managers
\* registered and a scene still live.
C23_Witness ==
    /\ epc = "host"
    /\ tick = 2
    /\ passes = 2
    /\ Len(nodes) = 2
    /\ scenes # << >>
    /\ calls = << Call(1, "render"), Call(1, "audio_process"),
                  Call(2, "render"), Call(2, "audio_process") >>

\* C24: the host loop stops after a render exactly when the registry is
\* empty (finished()); a scene leaves the registry only in a step of run and
\* only when its coroutine has completed; and if every scene the host
\* created eventually completes, the host, which keeps calling run,
\* eventually finds finished() true and stops.
C24_FinishedWhenRegistryEmpty ==
    /\ [][/\ passes' # passes => (epc' = "stopped" <=> scenes = << >>)
          /\ epc' = "stopped" => passes' # passes \/ epc = "stopped"
          /\ \A s \in Range(scenes) :
                s \notin Range(scenes') => epc = "run" /\ st[s] = "done"]_vars
    /\ (\A s \in SceneIds : <>[](st[s] \in { "none", "done" }))
            => <>(epc = "stopped")

\* The host has stopped after playing two scenes to their end, the second
\* one created after the first run call.
C24_Witness ==
    /\ epc = "stopped"
    /\ scenes = << >>
    /\ counter = 2
    /\ \A s \in { 0, 1 } : st[s] = "done"
    /\ presentRecv[1] # << >> /\ presentRecv[1][1] > 1

\* The scene has come to the end of its body.
AtEnd(s) == st[s] = "running" /\ spc[s] > Len(script[s])

\* C25: a scene that comes to the end of its body with a Rect handle whose
\* drop() has not run to completion aborts the process and never completes;
\* nothing else aborts here.  A drop() that runs to completion ends with the
\* second Update, after the drop message; a scene whose handles all went
\* through it completes without an abort.
C25_UndroppedHandleAborts ==
    [][\A s \in SceneIds :
          /\ (AtEnd(s) /\ HeldRects(s) > 0 /\ st'[s] # st[s]) =>
                epc' = "aborted"
          /\ (AtEnd(s) /\ HeldRects(s) > 0 /\ epc' # "aborted") =>
                st'[s] = st[s]
          /\ (epc' = "aborted" /\ epc # "aborted") =>
                \E u \in SceneIds : AtEnd(u) /\ HeldRects(u) > 0
          /\ (HeldRects(s)' < HeldRects(s)) =>
                /\ st[s] = "dropSubmit"
                /\ [inbox'[Len(inbox')] EXCEPT !.n = 0] =
                        Msg(s, "Update", "none", << >>)
          /\ (st'[s] = "done" /\ st[s] # "done") =>
                /\ HeldRects(s) = 0
                /\ epc' # "aborted"]_vars

\* The process has been aborted by a scene that took its first handle
\* through drop() and let its second one go out of scope, after another
\* scene had completed.
C25_Witness ==
    /\ epc = "aborted"
    /\ \E s, u \in SceneIds :
            /\ st[s] = "done"
            /\ Len(script[u]) = 4
            /\ script[u][2] = OpDrop
            /\ AtEnd(u)
            /\ HeldRects(u) = 1

\* C26: when run has returned the inbox is empty: every message a scene has
\* sent has been received and dispatched by the Engine within that run call.
C26_InboxEmptyOnReturn ==
    epc = "returned" =>
        /\ inbox = << >>
        /\ \A s \in SceneIds : ndisp[s] = nsent[s]

\* The step is the loop iteration of run that receives a message of the type.
DispatchStep(type) == ndisp' # ndisp /\ Head(inbox).type = type

\* C27: the dispatch of an Update, whichever scene sent it, calls update()
\* once on every registered manager, in registration order, and nothing
\* else; every manager is brought to the state its update() makes.  The
\* waiting list is left as it is, and so is the registry but for the prune
\* that ends every iteration of the loop (no scene is added, and none
\* removed that has not completed).
C27_UpdateReachesEveryManager ==
    [][DispatchStep("Update") =>
          /\ Len(calls') = Len(nodes)
          /\ \A i \in 1 .. Len(nodes) :
                /\ calls'[i] = Call(i, "update")
                /\ nodes'[i] = RectNode_update(nodes[i])
          /\ Len(nodes') = Len(nodes)
          /\ waiting' = waiting
          /\ scenes' = Pruned(scenes)]_vars

\* With two managers registered, an Update of the second scene has just been
\* dispatched: both managers were updated, first to second, and the first
\* has applied the colour the scene had set.
C27_Witness ==
    /\ Len(nodes) = 2
    /\ last.msg.type = "Update"
    /\ last.msg.from = 1
    /\ calls = << Call(1, "update"), Call(2, "update") >>
    /\ nodes[1].rects # << >>
    /\ nodes[1].rects[1].color = 1
    /\ waiting # << >>

\* The managers whose type tag is that of the message at the head of the inbox
Matching == { i \in 1 .. Len(nodes) : nodes[i].ty = Head(inbox).kind }

\* What the dispatch of the message at the head of the inbox calls
DispatchedFn == IF Head(inbox).type = "CreateRef" THEN "create_node"
                ELSE "init_node"

\* C28: the dispatch of a CreateRef or a CreateNode calls one manager, once:
\* the first in registration order whose type tag equals the tag of the
\* message (create_node for a CreateRef, init_node for a CreateNode).  Every
\* other manager is left as it was, a later one with the same tag included;
\* with no manager of that tag none is called.
C28_FirstMatchingManagerOnly ==
    [][(DispatchStep("CreateRef") \/ DispatchStep("CreateNode")) =>
          /\ Len(nodes') = Len(nodes)
          /\ Matching = { } => calls' = << >> /\ nodes' = nodes
          /\ Matching # { } =>
                /\ calls' = << Call(SetMin(Matching), DispatchedFn) >>
                /\ nodes'[SetMin(Matching)] # nodes[SetMin(Matching)]
                /\ \A i \in 1 .. Len(nodes) :
                        i # SetMin(Matching) => nodes'[i] = nodes[i]]_vars

\* With two RectNode managers registered, a CreateNode has just been
\* dispatched: the first manager holds the object and its receiver, the
\* second is as it was made.
C28_Witness ==
    /\ Len(nodes) = 2
    /\ last.msg.type = "CreateNode"
    /\ calls = << Call(1, "init_node") >>
    /\ Len(nodes[1].rects) = 1
    /\ Len(nodes[1].receivers) = 1
    /\ nodes[2] = EmptyRectNode

\* C29: under the fair scheduling of the runtime, if every live scene
\* eventually is parked in Present or has completed, every run call
\* eventually returns; and run takes no step back to the host while a live
\* scene is neither parked nor completed, however long that lasts.
C29_RunReturnsIffScenesSettle ==
    /\ (\A s \in SceneIds : Live(s) ~> (Parked(s) \/ st[s] = "done"))
            => ((epc = "run") ~> (epc = "returned"))
    /\ [][(epc = "run" /\ \E s \in SceneIds : Live(s)' /\ ~Parked(s)')
                => epc' = "run"]_vars

\* The second run call has returned: one scene is parked in its second
\* Present, the other has completed in this call.
C29_Witness ==
    /\ epc = "returned"
    /\ tick = 2
    /\ \E s, u \in SceneIds :
            /\ Parked(s)
            /\ presentRecv[s] = << 1, 2 >>
            /\ st[u] = "done"
            /\ presentRecv[u] = << 1 >>

\* The spawns of a registered kind the scene has started: << scene, place >>
SpawnsStarted(s) ==
    { << s, j >> : j \in { k \in 1 .. Len(script[s]) :
        /\ script[s][k].op = "Spawn"
        /\ script[s][k].kind \in { nodes[i].ty : i \in 1 .. Len(nodes) }
        /\ \/ k < spc[s]
           \/ k = spc[s] /\ st[s] = "awaitRef" } }

\* C30: when run has returned no scene is waiting for a CreateRef reply, and
\* for every spawn a scene has started the CreateRef has been answered and
\* the CreateNode that follows it has been dispatched.
C30_SpawnSettledWithinRun ==
    epc = "returned" =>
        \A s \in SceneIds :
            /\ st[s] # "awaitRef"
            /\ SpawnsStarted(s) \subseteq created
            /\ SpawnsStarted(s) \subseteq inited

\* C31: with one outstanding present() per scene (the scripts of Scripts), the
\* waiting list never names a scene twice and names only unfinished scenes
\* of the registry; at every frame-boundary check it is no longer than the
\* pruned registry, and when run returns the two lengths are equal.
C31_OneWaiterPerLiveScene ==
    /\ \A i, j \in 1 .. Len(waiting) : waiting[i] = waiting[j] => i = j
    /\ \A i \in 1 .. Len(waiting) :
            /\ ~IsFinished(waiting[i])
            /\ waiting[i] \in Range(scenes)
    /\ chk.made => chk.w <= chk.sc
    /\ epc = "returned" =>
            /\ chk.made /\ chk.exit
            /\ chk.w = chk.sc
            /\ Len(waiting) = Len(scenes)

\* A later run returns with both scenes alive and both waiting.
C31_Witness ==
    /\ epc = "returned"
    /\ tick >= 2
    /\ Len(scenes) = 2
    /\ Len(waiting) = 2
    /\ chk.w = 2 /\ chk.sc = 2

SetOps == { "SetSize", "SetColor", "SetPosition" }

SetTagOf(o) ==
    IF o = "SetSize" THEN SetSizeTag
    ELSE IF o = "SetColor" THEN SetColorTag ELSE SetPositionTag

AtSet(s) ==
    /\ st[s] = "running"
    /\ spc[s] <= Len(script[s])
    /\ script[s][spc[s]].op \in SetOps

\* The channel of the handle scene s holds
ChannelOf(ns, s) ==
    LET p == CHOOSE q \in ReceiverOf(Handle(s)) : TRUE IN
    ns[p[1]].receivers[p[2]].ch

\* Scene s runs its set_size, set_color or set_position.
SetStep(s) ==
    /\ AtSet(s)
    /\ epc = "run"
    /\ spc'[s] # spc[s] \/ epc' = "aborted"

AllChannelsWithinCap ==
    \A i \in 1 .. Len(nodes) : \A j \in 1 .. Len(nodes[i].receivers) :
        Len(nodes[i].receivers[j].ch) <= ElementCap

SetTakesOneOrPanics ==
    \A s \in SceneIds :
        SetStep(s) /\ ReceiverOf(Handle(s)) # { } =>
            IF ChannelOf(nodes, s) # << >>
            THEN /\ epc' = "aborted"
                 /\ nodes' = nodes
                 /\ spc' = spc /\ st' = st
            ELSE /\ epc' = epc
                 /\ ChannelOf(nodes', s) =
                        << ElementMessage_Set(SetTagOf(script[s][spc[s]].op),
                                              script[s][spc[s]].val) >>
                 /\ spc'[s] = spc[s] + 1

\* C32: a Rect's channel never holds more than one property change; a set of
\* size, colour or position that finds the previous change still unread by
\* the manager panics (the unwinding aborts the process) and leaves the
\* channel and the scene's position as they were, while a set that finds the
\* channel empty queues exactly its own message and goes on.
C32_SecondSetPanics ==
    /\ []AllChannelsWithinCap
    /\ [][SetTakesOneOrPanics]_vars

\* A set of another property has found the first change unread and panicked.
C32_Witness ==
    \E s \in SceneIds :
        /\ epc = "aborted"
        /\ AtSet(s)
        /\ ReceiverOf(Handle(s)) # { }
        /\ Len(ChannelOf(nodes, s)) = 1
        /\ ChannelOf(nodes, s)[1].tag # SetTagOf(script[s][spc[s]].op)

DropPending(r) == r.ch # << >> /\ Head(r.ch).tag = SetDropTag

\* The ids of the receivers of manager n whose pending message is the drop
DropIds(n) ==
    { n.receivers[j].id :
        j \in { k \in 1 .. Len(n.receivers) : DropPending(n.receivers[k]) } }

\* The ids of the receivers of manager n with any pending message
PendingIds(n) ==
    { n.receivers[j].id :
        j \in { k \in 1 .. Len(n.receivers) : n.receivers[k].ch # << >> } }

\* What one update() leaves of the receivers of n: those without a pending
\* drop, in order, each one message shorter if it had any.
ReceiversAfter(n) ==
    LET keep == SelectSeq(n.receivers, LAMBDA r : ~DropPending(r)) IN
    [j \in 1 .. Len(keep) |->
        [keep[j] EXCEPT !.ch = IF @ = << >> THEN << >> ELSE Tail(@)]]

\* b is what one update() may make of manager a.
UpdateTakesOneEach(a, b) ==
    LET keep == SelectSeq(a.rects, LAMBDA x : x.id \notin DropIds(a)) IN
    /\ b.receivers = ReceiversAfter(a)
    /\ b.counter = a.counter
    /\ Len(b.rects) = Len(keep)
    /\ \A k \in 1 .. Len(keep) :
            /\ b.rects[k].id = keep[k].id
            /\ b.rects[k].builder = keep[k].builder
            /\ keep[k].id \notin PendingIds(a) => b.rects[k] = keep[k]

RectIdsDistinct ==
    \A i \in 1 .. Len(nodes) : \A j, k \in 1 .. Len(nodes[i].rects) :
        nodes[i].rects[j].id = nodes[i].rects[k].id => j = k

\* C33: the rectangles of a manager have distinct ids, and the update() that
\* the dispatch of an Update runs on a manager takes at most one message
\* from each receiver; a receiver whose message is the drop is removed
\* together with the rectangle that has the receiver's id, every other
\* receiver stays in its place with the rest of its channel, and every
\* rectangle whose id no pending message names stays as it was.
C33_DropRemovesOwnRect ==
    /\ []RectIdsDistinct
    /\ [][DispatchStep("Update") =>
            /\ Len(nodes') = Len(nodes)
            /\ \A i \in 1 .. Len(nodes) :
                    UpdateTakesOneEach(nodes[i], nodes'[i])]_vars

\* An update has just removed one rectangle and its receiver and left the
\* other rectangle of the manager and its receiver in place.
C33_Witness ==
    /\ calls = << Call(1, "update") >>
    /\ nodes[1].counter = 2
    /\ Len(nodes[1].rects) = 1
    /\ Len(nodes[1].receivers) = 1
    /\ nodes[1].rects[1].id = nodes[1].receivers[1].id
    /\ \E s \in SceneIds : spc[s] > 1 /\ script[s][spc[s] - 1].op = "Drop"

\* ---------------------------------------------------------- C34, C35
\* s = (delta / duration) * |end - start|
TweenStep(e) ==
    (info.delta * (IF e.start > e.end THEN e.start - e.end
                   ELSE e.end - e.start)) \div e.time

\* start + k*s, or start - k*s for a range that runs downwards
ValueAt(e, k) ==
    IF e.start > e.end THEN e.start - k * TweenStep(e)
    ELSE e.start + k * TweenStep(e)

\* x lies strictly beyond the end of the range of e
Beyond(e, x) == IF e.start > e.end THEN x < e.end ELSE x > e.end

\* K: the first round whose value lies strictly beyond the end
LastRound(e) ==
    CHOOSE k \in 1 .. (e.time + 1) :
        /\ Beyond(e, ValueAt(e, k))
        /\ \A j \in 1 .. (k - 1) : ~Beyond(e, ValueAt(e, j))

\* tween i is no longer among the tweens of the future
TweenRemoved(i) == \A j \in 1 .. Len(tw.tweens) : tw.tweens[j].id # i

\* C34: the runner of a tween gets start + k*s (start - k*s for a range that
\* runs downwards) in round k, for k = 1 .. K and no further, never the start
\* itself; the tween is removed exactly when it has got the value of round
\* K, the first that lies strictly beyond the end, and that value is passed
\* on as it is, not cut back to the end; a tween whose value is exactly the
\* end in round k therefore has K = k + 1.
C34_RunnerValuesUpToOvershoot ==
    \A s \in SceneIds :
        (TweenScene(s) /\ tw.round >= 1) =>
            LET set == TweenSets[script[s][1].val] IN
            \A i \in 1 .. Len(tw.log) :
                LET e == set[i]
                    n == Len(tw.log[i]) IN
                /\ TweenStep(e) > 0
                /\ n >= 1 /\ n <= LastRound(e)
                /\ \A k \in 1 .. n :
                        /\ tw.log[i][k] = ValueAt(e, k)
                        /\ tw.log[i][k] # e.start
                        /\ tw.log[i][k] = e.end => LastRound(e) = k + 1
                /\ TweenRemoved(i) <=> n = LastRound(e)
                /\ TweenRemoved(i) =>
                        /\ Beyond(e, tw.log[i][n])
                        /\ tw.log[i][n] # e.end

\* Under the host of five frames a second the tween over half a second has
\* jumped over its end (4, 8, 12 tenths) and the one over a second has
\* reached its end exactly and run once more (.., 0, -2).
C34_Witness ==
    \E s \in SceneIds :
        /\ TweenScene(s)
        /\ script[s][1].val = 3
        /\ info.delta = 2
        /\ tw.round = 6
        /\ tw.tweens = << >>
        /\ tw.log[1] = << 4, 8, 12 >>
        /\ Len(tw.log[2]) = 6
        /\ tw.log[2][5] = 0
        /\ tw.log[2][6] = -2

\* the largest K among the tweens of set k
MaxRound(k) ==
    CHOOSE m \in { LastRound(TweenSets[k][i]) : i \in 1 .. Len(TweenSets[k]) } :
        \A i \in 1 .. Len(TweenSets[k]) : LastRound(TweenSets[k][i]) <= m

\* the future scene s awaited has resolved
TweenResolved(s) == TweenScene(s) /\ spc[s] > 1

\* C35: a tween that has been removed is not invoked in any later round,
\* whatever the others do; the future resolves only in a state where no tween
\* is left, and by then every round, the last one included, has sent its
\* Update and its Present: the future has sent two messages per round, and
\* the number of rounds, and so of Presents, is the largest K of its tweens.
C35_FutureEndsAfterLongestTween ==
    /\ [][\A i \in 1 .. Len(tw.log) :
            TweenRemoved(i) => tw.log'[i] = tw.log[i]]_vars
    /\ [](\A s \in SceneIds :
            TweenResolved(s) =>
                /\ tw.tweens = << >>
                /\ tw.round = MaxRound(script[s][1].val)
                /\ nsent[s] = 2 * tw.round
                /\ Len(presentRecv[s]) = tw.round
                /\ Len(presentRes[s]) = tw.round)

\* The future of the tweens over half a second and over a second has
\* resolved: the short one was last invoked in round 6, the long one in round
\* 11, and 11 Presents were received.
C35_Witness ==
    \E s \in SceneIds :
        /\ TweenResolved(s)
        /\ script[s][1].val = 3
        /\ info.delta = 1
        /\ Len(tw.log[1]) = 6
        /\ Len(tw.log[2]) = 11
        /\ Len(presentRecv[s]) = 11

\* ---------------------------------------------------------------- C36
\* the messages in the inbox, each named by its sender and send number
InboxStamps == { << inbox[i].from, inbox[i].n >> : i \in 1 .. Len(inbox) }

\* the sends of every scene that the Engine has not yet received
Outstanding ==
    UNION { { << s, k >> : k \in (ndisp[s] + 1) .. nsent[s] } : s \in SceneIds }

\* scene s stands at a call that sends to the Engine
AtSend(s) ==
    /\ st[s] = "running"
    /\ spc[s] <= Len(script[s])
    /\ script[s][spc[s]].op \in { "Update", "Present" }

InboxHoldsOutstanding ==
    /\ Len(inbox) <= InboxCap
    /\ Cardinality(InboxStamps) = Len(inbox)
    /\ InboxStamps = Outstanding

SendWaitsForRoom ==
    /\ nsent' # nsent =>
            /\ Len(inbox) < InboxCap
            /\ Len(inbox') = Len(inbox) + 1
            /\ SubSeq(inbox', 1, Len(inbox)) = inbox
            /\ ndisp' = ndisp
    /\ Len(inbox) = InboxCap =>
            \A s \in SceneIds :
                AtSend(s) => (spc'[s] = spc[s] /\ st'[s] = st[s])

ReceiveTakesOne ==
    ndisp' # ndisp =>
        /\ inbox' = Tail(inbox)
        /\ ndisp' = [ndisp EXCEPT ![Head(inbox).from] = @ + 1]
        /\ nsent' = nsent
        /\ last'.msg = Head(inbox)

\* C36: the inbox never holds more than InboxCap messages, and what it holds
\* is exactly the sends the Engine has not yet received, each once.  A send
\* goes through only while there is room and then joins the back of the
\* queue; while the inbox is full every scene that stands at a send stays
\* where it is, until a receive has made room.  One iteration of the Engine
\* loop takes exactly the front message and no other.
C36_InboxBoundedAndReliable ==
    /\ []InboxHoldsOutstanding
    /\ [][SendWaitsForRoom]_vars
    /\ [][ReceiveTakesOne]_vars

\* The inbox is full and the scene that filled it stands at its ninth
\* submit.
C36_Witness ==
    /\ epc = "run"
    /\ Len(inbox) = InboxCap
    /\ \E s \in SceneIds :
            /\ AtSend(s)
            /\ spc[s] = InboxCap + 1
            /\ nsent[s] = InboxCap

\* ---------------------------------------------------------------- C37
\* the scenes create_scene has made so far
CreatedScenes == { s \in SceneIds : st[s] # "none" }

SceneIdsInOrder ==
    /\ CreatedScenes = { s \in SceneIds : s < counter }
    /\ \A i, j \in 1 .. Len(scenes) : i < j => scenes[i] < scenes[j]
    /\ \A i \in 1 .. Len(scenes) : scenes[i] < counter

CreateTakesCounter ==
    /\ counter' >= counter
    /\ scenes' # scenes /\ Len(scenes') > Len(scenes) =>
            /\ counter' = counter + 1
            /\ scenes' = Append(scenes, counter)
            /\ counter = Cardinality(CreatedScenes)
            /\ counter \notin CreatedScenes
            /\ CreatedScenes' = CreatedScenes \cup { counter }
    /\ counter' # counter => Len(scenes') = Len(scenes) + 1

\* C37: the counter only grows, and only in create_scene, by one; the scene
\* create_scene makes gets the counter's value as its id, which is the number
\* of scenes made before it and the id of none of them, whether they are
\* still registered or have completed and been pruned.
C37_SceneIdsNeverReused ==
    /\ []SceneIdsInOrder
    /\ [][CreateTakesCounter]_vars

\* The third scene was made after the first had completed and been pruned:
\* it stands in the second place of the registry under the id 2.
C37_Witness ==
    /\ counter = 3
    /\ st[0] = "done"
    /\ scenes = << 1, 2 >>
    /\ st[2] = "running"
    /\ spc[2] = 1

\* ---------------------------------------------------------------- C38
\* the reads of the metadata scene s has completed, in order
ReadsDone(s) ==
    SelectSeq(SubSeq(script[s], 1, spc[s] - 1),
              LAMBDA o : o.op \in { "Delta", "Fps", "Info" })

InfoReadable ==
    /\ RwLock_try_read(info)
    /\ \A s \in SceneIds :
            /\ st[s] # "panicked"
            /\ Len(gotVal[s]) = Len(ReadsDone(s))
            /\ \A k \in 1 .. Len(gotVal[s]) :
                    gotVal[s][k] = IF ReadsDone(s)[k].op = "Fps"
                                   THEN Info_fps(info) ELSE info.delta

\* C38: no step of the Engine, the host loop or a scene changes the shared
\* metadata or takes its write lock, so in every reachable state the lock can
\* be read-acquired at once: no fps() or delta() call of a scene panics, and
\* every read returns what Engine::new put there.
C38_InfoNeverWritten ==
    /\ []InfoReadable
    /\ [][info' = info]_vars

\* Under the host of five frames a second a scene has read delta, shown a
\* frame, read fps and returned.
C38_Witness ==
    \E s \in SceneIds :
        /\ st[s] = "done"
        /\ info.delta = 2
        /\ gotVal[s] = << 2, 5 >>
        /\ Len(presentRes[s]) = 1

\* The host never reaches the end of the run calls it is given with scenes
\* still to play.
LiveTickSuffices == ~(epc = "host" /\ tick = tickLimit)

====
